---------------------------- MODULE Spec2Model ----------------------------
(***************************************************************************)
(* A model of the kernel-independent FMM of bempp-rs: the evaluation       *)
(* driver (fmm/src/fmm.rs), the interaction lists                          *)
(* (tree/src/implementations/impl_multi_node.rs) and the parallel          *)
(* translation operators (fmm/src/field_translation.rs).                   *)
(*                                                                         *)
(* The module holds several state machines over one set of variables; each *)
(* specification moves its own group of variables and leaves the others at *)
(* their initial values.                                                   *)
(***************************************************************************)
EXTENDS Integers, Sequences, FiniteSets, Bags, TLC

VARIABLES
    \* ---- evaluation driver (FmmLoop::run) ----
    variant,    \* "adaptive" | "uniform" | "matrix": which impl of FmmLoop runs
    time,       \* the argument of run
    depth,      \* tree().get_depth()
    pc,         \* index of the next operator call of run, Len+1 when returned
    trace,      \* the operator calls made so far, in order
    \* ---- interaction lists of one key ----
    key,        \* the key the lists are computed for
    called,     \* "none" | "v" | "leaf": which list functions have returned
    ulist,      \* get_near_field(key)
    vlist,      \* get_interaction_list(key), None when the code returns None
    wlist,      \* get_w_list(key)
    xlist,      \* get_x_list(key)
    \* ---- X/W membership of a pair of keys ----
    pairLeaf,   \* the leaf l
    pairSrc,    \* the box s
    queried,    \* the two lists have been computed and searched
    inX,        \* s occurs in get_x_list(l)
    inW,        \* l occurs in get_w_list(s)
    \* ---- bucket filling of the SVD m2l, first parallel loop ----
    tvLevel,    \* the level handed to m2l
    tvTree,     \* the boxes of the tree at that level: the targets
    tvRun,      \* by target, the closures begun: transfer vectors and cursor
    tvSeen,     \* transfer vectors (offsets) looked up so far
    tvPanic,    \* the bucket lookup .unwrap() failed
    \* ---- m2m(level) run by parallel tasks ----
    mmTree,     \* the source boxes at the level (children of the root)
    multipole,  \* multipole[k]: the multipole expansion of box k
    mmLock,     \* mmLock[k]: the task holding the mutex of multipole[k], or NoTask
    mmPc,       \* mmPc[s]: position of the task of source s in the closure
    mmOwned,    \* mmOwned[s]: target_multipole_owned of the task of source s
    mmRead,     \* mmRead[s]: the target value the task read under the lock
    mmInit,     \* the multipoles before the call
    \* ---- m2l(level), SVD and FFT variants ----
    mlTree,     \* the leaves (level 2 boxes) of the sparse tree
    mlMult,     \* mlMult[k]: multipole of box k (read only)
    mlKind,     \* "svd" | "fft": the field translation in use
    mlPhase,    \* "start" | "fill" | "apply" | "done"
    mlVList,    \* fill: mlVList[t]: the v_list the task of target t computed
    mlCursor,   \* fill: mlCursor[t] sources of V(t) already pushed, or NotStarted
    mlBucket,   \* mlBucket[tv]: the recorded (source, target) pairs
    mlGather,   \* apply: mlGather[tv]: the source multipoles the task has read
    mlCols,     \* apply: mlCols[tv]: columns of locals_owned, <<>> before computed
    mlDone,     \* apply: mlDone[tv]: number of columns already added
    mlLocal,    \* mlLocal[t]: the bag of contributions added to local[t]
    mlLock,     \* mlLock[t]: the task holding the mutex of local[t], or NoHolder
    mlRead,     \* apply: mlRead[tv]: the local the task read under the lock
    mlPanic,    \* an unwrap failed
    \* ---- NewKiFmm::set_metadata ----
    mdTree,     \* self.tree: [source_tree, target_tree] of the SingleNodeFmmTree
    mdEval,     \* the eval_type argument: "Value" | "ValueDeriv"
    mdOrder,    \* self.expansion_order
    mdPc,       \* position in set_metadata, "done" when returned, or "panic"
    mdLocal,    \* the local variables of set_metadata
    fmm,        \* the metadata fields of the NewKiFmm object (self)
    \* ---- NodeData ----
    ndChecks,       \* the build checks integer overflow (debug) or wraps
    ndFieldSize,    \* self.field_size
    ndDisplacement, \* self.displacement
    ndData,         \* self.data
    ndOrder,        \* the order last given to set_expansion_order, or NoIndex
    ndSetM,         \* the vector last given to set_multipole_expansion
    ndSetL,         \* the vector last given to set_local_expansion
    ndLast,         \* the last call: its name, outcome and returned value
    \* ---- KiFmmBuilderSingleNode ----
    bld,        \* the fields of the builder
    bldAlive,   \* the caller still holds the builder
    bldChecks,  \* the build checks integer overflow (debug) or wraps
    bldLast,    \* the last call: its name, arguments and outcome
    \* ---- timing dictionaries of FmmLoop::run ----
    tmVariant,  \* which impl of FmmLoop runs
    tmTime,     \* the argument of run
    tmDepth,    \* tree().get_depth()
    tmPc,       \* "upward_pass" | "downward_pass" | "merge" | "done"
    tmT1,       \* t1, what upward_pass returned
    tmT2,       \* t2, what downward_pass returned
    tmResult,   \* what run returned
    \* ---- MultiNodeTree::uniform_tree ----
    trInput,    \* the argument points: the coordinates, in input order
    trDepth,    \* the argument depth
    trPc,       \* "encode" | "leaves" | "assign" | "return" | "done" | "panic"
    trPoints,   \* the local points: the encoded points, sorted
    trLeaves,   \* the local leaves
    trP2L,      \* the local points_to_leaves
    trL2P,      \* the local leaves_to_points
    trTree,     \* the MultiNodeTree returned, NoTree before
    \* ---- a pair of leaves of a uniform tree ----
    cvDepth,    \* the depth d of the tree
    cvSrc,      \* the source leaf s
    cvTgt,      \* the target leaf t
    cvLevel,    \* 1 before U(t) is computed, then the next level of V to look at
    cvNear,     \* number of occurrences of s in U(t)
    cvRepeats,  \* U(t) lists some box twice
    cvFar,      \* the levels L at which the ancestor of s is in V(ancestor of t)
    \* ---- the locks of one parallel operator invocation ----
    lkOp,       \* the operator invoked
    lkTargets,  \* the boxes the tasks are run for, in order
    lkLists,    \* lkLists[t]: the list of source boxes of task t
    lkPhase,    \* "first" | "second": the par_iter that is running
    lkProg,     \* lkProg[t]: the rounds of task t
    lkRound,    \* lkRound[t]: the round task t is in
    lkHold,     \* lkHold[t]: the guards task t holds in its round
    lkBucket,   \* SVD m2l: the pairs pushed to the bucket of each transfer vector
    \* ---- the ranks of complete_blocktree / transfer_points_to_blocktree ----
    mpFn,       \* the function every rank calls
    mpSize,     \* world.size()
    mpBlocking, \* a send blocks until the matching receive is posted
    mpPoints,   \* mpPoints[r]: the argument points of rank r
    mpPc,       \* mpPc[r]: the next communication step of rank r
    mpChan,     \* mpChan[r]: the messages sent by rank r and not yet received
    mpBuf,      \* mpBuf[r]: bufsize, buffer and boundary of rank r
    mpOut,      \* mpOut[r]: what rank r returned
    mpPosted,   \* mpPosted[r]: number of receives rank r has completed
    \* ---- the ranks of create_parallel_grid / receive_parallel_grid ----
    grKind,     \* the grid builder
    grSize,     \* comm.size()
    grBlocking, \* a send completes only when the receive is posted
    grCells,    \* self.cells of the builder on rank 0, cell by cell
    grOwners,   \* cell_owners: cell id -> rank
    grPart,     \* the ..._per_proc Vecs of rank 0, empty before the loops
    grSent,     \* number of sends rank 0 has completed
    grChan,     \* grChan[p]: the messages of rank 0 to p not yet received
    grGot,      \* grGot[p]: the fields rank p has received
    grGrid,     \* grGrid[p]: the grid of rank p
    grDone      \* grDone[p]: rank p has returned

varsRun   == <<variant, time, depth, pc, trace>>
varsLists == <<key, called, ulist, vlist, wlist, xlist>>
varsPair  == <<pairLeaf, pairSrc, queried, inX, inW>>
varsTV    == <<tvLevel, tvTree, tvRun, tvSeen, tvPanic>>
varsM2M   == <<mmTree, multipole, mmLock, mmPc, mmOwned, mmRead, mmInit>>
varsM2L   == <<mlTree, mlMult, mlKind, mlPhase, mlVList, mlCursor, mlBucket, mlGather, mlCols,
               mlDone, mlLocal, mlLock, mlRead, mlPanic>>
varsMeta  == <<mdTree, mdEval, mdOrder, mdPc, mdLocal, fmm>>
varsOld   == <<varsRun, varsLists, varsPair, varsTV, varsM2M, varsM2L>>
varsData  == <<ndChecks, ndFieldSize, ndDisplacement, ndData, ndOrder, ndSetM,
               ndSetL, ndLast>>
varsBuilder == <<bld, bldAlive, bldChecks, bldLast>>
varsTimes == <<tmVariant, tmTime, tmDepth, tmPc, tmT1, tmT2, tmResult>>
varsTree  == <<trInput, trDepth, trPc, trPoints, trLeaves, trP2L, trL2P, trTree>>
varsCover == <<cvDepth, cvSrc, cvTgt, cvLevel, cvNear, cvRepeats, cvFar>>
varsLocks == <<lkOp, lkTargets, lkLists, lkPhase, lkProg, lkRound, lkHold, lkBucket>>
varsMpi == <<mpFn, mpSize, mpBlocking, mpPoints, mpPc, mpChan, mpBuf, mpOut, mpPosted>>
varsGrid == <<grKind, grSize, grBlocking, grCells, grOwners, grPart, grSent, grChan, grGot, grGrid, grDone>>
varsNew   == <<varsMeta, varsData, varsBuilder, varsTimes, varsTree, varsCover, varsLocks, varsMpi, varsGrid>>
vars == <<varsOld, varsNew>>

\* What each state machine leaves alone.
notRun   == <<varsLists, varsPair, varsTV, varsM2M, varsM2L, varsNew>>
notLists == <<varsRun, varsPair, varsTV, varsM2M, varsM2L, varsNew>>
notPair  == <<varsRun, varsLists, varsTV, varsM2M, varsM2L, varsNew>>
notTV    == <<varsRun, varsLists, varsPair, varsM2M, varsM2L, varsNew>>
notM2M   == <<varsRun, varsLists, varsPair, varsTV, varsM2L, varsNew>>
notM2L   == <<varsRun, varsLists, varsPair, varsTV, varsM2M, varsNew>>
notMeta  == <<varsOld, varsData, varsBuilder, varsTimes, varsTree, varsCover, varsLocks, varsMpi, varsGrid>>
notData  == <<varsOld, varsMeta, varsBuilder, varsTimes, varsTree, varsCover, varsLocks, varsMpi, varsGrid>>
notBuilder == <<varsOld, varsMeta, varsData, varsTimes, varsTree, varsCover, varsLocks, varsMpi, varsGrid>>
notTimes == <<varsOld, varsMeta, varsData, varsBuilder, varsTree, varsCover, varsLocks, varsMpi, varsGrid>>
notTree  == <<varsOld, varsMeta, varsData, varsBuilder, varsTimes, varsCover, varsLocks, varsMpi, varsGrid>>
notCover == <<varsOld, varsMeta, varsData, varsBuilder, varsTimes, varsTree, varsLocks, varsMpi, varsGrid>>
notLocks == <<varsOld, varsMeta, varsData, varsBuilder, varsTimes, varsTree, varsCover, varsMpi, varsGrid>>
notMpi == <<varsOld, varsMeta, varsData, varsBuilder, varsTimes, varsTree, varsCover, varsLocks, varsGrid>>
notGrid == <<varsOld, varsMeta, varsData, varsBuilder, varsTimes, varsTree, varsCover, varsLocks, varsMpi>>

-----------------------------------------------------------------------------
(* Bounds of the model. *)

\* Largest tree depth the driver is run on.
MaxDepth == 4

\* Deepest level of the keys whose interaction lists are computed.
MaxLevel == 3

\* Deepest level of the keys of the X/W pairs.
MaxPairLevel == 2

\* Deepest level of the trees the bucket filling of m2l is run on.
MaxTVLevel == 2

\* The level of the complete tree whose V-lists the library of M2L matrices
\* is enumerated from.
LibraryLevel == 3

\* Largest number of source boxes present at the level m2m runs on.
MaxSources == 3

\* Largest number of boxes of the level-2 tree m2l runs on.
MaxLeaves == 4

\* Largest number of (source, target) pairs of a tree handed to m2l.
MaxVPairs == 6

\* Deepest leaf level of the trees set_metadata is run on.
MaxMetaDepth == 1

\* Largest number of leaves of those trees.
MaxMetaLeaves == 2

\* Largest number of points of one of their leaves.
MaxLeafPoints == 1

\* Largest expansion order set_metadata is run with.
MaxMetaOrder == 3

\* Largest expansion order given to NodeData::set_expansion_order.
MaxDataOrder == 2

\* Largest coefficient of the vectors given to the setters of NodeData.
MaxCoefficient == 2

\* Largest number of source points and of target points given to the builder.
MaxBuilderPoints == 2

\* Largest n_crit given to the builder.
MaxNCrit == 2

\* Largest expansion order given to the builder.
MaxBuilderOrder == 3

\* Largest tree depth of a timed run.
MaxTimedDepth == 3

\* Largest value of one start.elapsed().as_millis().
MaxMillis == 1

\* Largest depth given to uniform_tree; the points lie on the grid of this
\* level, which stands for the code's DEEPEST_LEVEL.
MaxTreeDepth == 2

\* Largest number of points given to uniform_tree.
MaxTreePoints == 2

\* Largest depth of the uniform tree whose pairs of leaves are looked at.
MaxCoverDepth == 3

\* Largest number of tasks of one operator invocation.
MaxLockTasks == 2

\* Largest length of the list of source boxes of one task.
MaxLockList == 1

\* Largest size of the communicator.
MaxRanks == 3

\* Largest number of points of one rank.
MaxRankPoints == 1

\* Largest number of ranks that share a grid.
MaxGridRanks == 2

\* Largest number of cells of a grid.
MaxGridCells == 2

-----------------------------------------------------------------------------
(***************************************************************************)
(* The evaluation driver.  An operator call is <<name, level>>; operators  *)
(* that take no level carry level 0.                                       *)
(***************************************************************************)

Variants == {"adaptive", "uniform", "matrix"}

Call(name, lvl) == <<name, lvl>>

\* A variant of the m2m loop that forgets .rev(): levels ascend.
M2MLoopAscending(lvl) == [i \in 1..lvl |-> Call("m2m", i)]

\* for level in (1..=depth).rev() { self.m2m(level) }
RECURSIVE M2MLoop(_)
M2MLoop(lvl) ==
    IF lvl < 1 THEN <<>> ELSE <<Call("m2m", lvl)>> \o M2MLoop(lvl - 1)

\* upward_pass: both arms of `match time` make the same calls.
upward_pass(t, d) ==
    IF t THEN <<Call("p2m", 0)>> \o M2MLoop(d)
         ELSE <<Call("p2m", 0)>> \o M2MLoop(d)

\* A variant of the adaptive loop body whose l2l guard is `level >= 2`.
AdaptiveLevelL2LAtTwo(t, lvl) ==
    (IF lvl >= 2 THEN <<Call("l2l", lvl)>> ELSE <<>>) \o
    (IF t THEN <<Call("p2l", lvl), Call("m2l", lvl)>>
          ELSE <<Call("m2l", lvl), Call("p2l", lvl)>>)

\* One iteration of `for level in 2..=depth` of FmmDataAdaptive::downward_pass.
AdaptiveLevel(t, lvl) ==
    (IF lvl > 2 THEN <<Call("l2l", lvl)>> ELSE <<>>) \o
    (IF t THEN <<Call("p2l", lvl), Call("m2l", lvl)>>
          ELSE <<Call("m2l", lvl), Call("p2l", lvl)>>)

\* One iteration of the loop of FmmDataUniform / FmmDataUniformMatrix.
UniformLevel(t, lvl) ==
    (IF lvl > 2 THEN <<Call("l2l", lvl)>> ELSE <<>>) \o
    (IF t THEN <<Call("m2l", lvl)>> ELSE <<Call("m2l", lvl)>>)

RECURSIVE AdaptiveLoop(_, _, _)
AdaptiveLoop(t, lvl, d) ==
    IF lvl > d THEN <<>> ELSE AdaptiveLevel(t, lvl) \o AdaptiveLoop(t, lvl + 1, d)

RECURSIVE UniformLoop(_, _, _)
UniformLoop(t, lvl, d) ==
    IF lvl > d THEN <<>> ELSE UniformLevel(t, lvl) \o UniformLoop(t, lvl + 1, d)

downward_pass_adaptive(t, d) ==
    AdaptiveLoop(t, 2, d) \o
    <<Call("m2p", 0), Call("p2p", 0), Call("l2p", 0)>>

downward_pass_uniform(t, d) ==
    UniformLoop(t, 2, d) \o <<Call("p2p", 0), Call("l2p", 0)>>

downward_pass_matrix(t, d) ==
    UniformLoop(t, 2, d) \o <<Call("p2p", 0), Call("l2p", 0)>>

downward_pass(v, t, d) ==
    CASE v = "adaptive" -> downward_pass_adaptive(t, d)
      [] v = "uniform"  -> downward_pass_uniform(t, d)
      [] v = "matrix"   -> downward_pass_matrix(t, d)

\* run: upward_pass(time) then downward_pass(time).
run(v, t, d) == upward_pass(t, d) \o downward_pass(v, t, d)

Program == run(variant, time, depth)

Returned == pc = Len(Program) + 1

InitRun ==
    /\ variant \in Variants
    /\ time \in BOOLEAN
    /\ depth \in 0..MaxDepth
    /\ pc = 1
    /\ trace = <<>>

\* The next call of run is a call of operator `name`.
NextCallIs(name) == pc <= Len(Program) /\ Program[pc][1] = name

\* The call at pc is made and returns (operators run to completion).
Invoke ==
    /\ trace' = Append(trace, Program[pc])
    /\ pc' = pc + 1
    /\ UNCHANGED <<variant, time, depth>>

P2M == NextCallIs("p2m") /\ Invoke /\ UNCHANGED notRun
M2M == NextCallIs("m2m") /\ Invoke /\ UNCHANGED notRun
L2L == NextCallIs("l2l") /\ Invoke /\ UNCHANGED notRun
P2L == NextCallIs("p2l") /\ Invoke /\ UNCHANGED notRun
M2L == NextCallIs("m2l") /\ Invoke /\ UNCHANGED notRun
M2P == NextCallIs("m2p") /\ Invoke /\ UNCHANGED notRun
P2P == NextCallIs("p2p") /\ Invoke /\ UNCHANGED notRun
L2P == NextCallIs("l2p") /\ Invoke /\ UNCHANGED notRun

NextRun == P2M \/ M2M \/ L2L \/ P2L \/ M2L \/ M2P \/ P2P \/ L2P

-----------------------------------------------------------------------------
(***************************************************************************)
(* What each operator reads and writes (field_translation.rs), as classes  *)
(* of expansion slots <<kind, level, leaf>>: kind is "multipole" or        *)
(* "local", leaf tells whether the box is a leaf.  A tree of depth d may   *)
(* hold leaves at any of its levels.                                       *)
(***************************************************************************)

Slots(kind, lvls, leafs) == {<<kind, l, b>> : l \in lvls, b \in leafs}

\* The expansions a call adds to.
Writes(c, d) ==
    CASE c[1] = "p2m" -> Slots("multipole", 0..d, {TRUE})
      [] c[1] = "m2m" -> Slots("multipole", {c[2] - 1}, {FALSE})
      [] c[1] = "l2l" -> Slots("local", {c[2]}, BOOLEAN)
      [] c[1] = "m2l" -> Slots("local", {c[2]}, BOOLEAN)
      [] c[1] = "p2l" -> Slots("local", 0..d, {TRUE})
      [] OTHER        -> {}

\* The expansions a call uses as a source.
Reads(c, d) ==
    CASE c[1] = "m2m" -> Slots("multipole", {c[2]}, BOOLEAN)
      [] c[1] = "m2l" -> Slots("multipole", {c[2]}, BOOLEAN)
      [] c[1] = "m2p" -> Slots("multipole", 1..d, BOOLEAN)
      [] c[1] = "l2l" -> Slots("local", {c[2] - 1}, {FALSE})
      [] c[1] = "l2p" -> Slots("local", 0..d, {TRUE})
      [] OTHER        -> {}

-----------------------------------------------------------------------------
(* Properties of the evaluation driver. *)

\* The total order of operators stated for a driver on a tree of depth d:
\* P2M, M2M(d) .. M2M(1), then per level L = 2..d: L2L(L) when L > 2, P2L(L)
\* when adaptive, M2L(L); then M2P when adaptive, P2P, L2P.
RECURSIVE OrderedLevels(_, _, _)
OrderedLevels(v, lvl, d) ==
    IF lvl > d THEN <<>>
    ELSE (IF lvl > 2 THEN <<Call("l2l", lvl)>> ELSE <<>>) \o
         (IF v = "adaptive" THEN <<Call("p2l", lvl)>> ELSE <<>>) \o
         <<Call("m2l", lvl)>> \o OrderedLevels(v, lvl + 1, d)

TotalOrder(v, d) ==
    <<Call("p2m", 0)>> \o [i \in 1..d |-> Call("m2m", d + 1 - i)] \o
    OrderedLevels(v, 2, d) \o
    (IF v = "adaptive" THEN <<Call("m2p", 0)>> ELSE <<>>) \o
    <<Call("p2p", 0), Call("l2p", 0)>>

\* C1: in every run (any variant, timing on or off, any depth) the operators
\* are invoked in the stated total order; in particular P2L(L) comes before
\* M2L(L) within each level.
C1_TotalOrder == Returned => trace = TotalOrder(variant, depth)

\* Number of invocations of operator `name` at level `lvl` so far.
Count(name, lvl) ==
    Cardinality({i \in 1..Len(trace) : trace[i] = Call(name, lvl)})

Once(cond) == IF cond THEN 1 ELSE 0

\* C2: for a tree of depth d one run invokes P2M once, M2M(L) once for each L
\* in 1..d, M2L(L) once for each L in 2..d and never below level 2, L2L(L) once
\* for each L in 3..d and never at level 2 or below, P2P and L2P once each;
\* P2L(L) (once per L in 2..d) and M2P (once) by the adaptive driver only; when
\* d < 2 no L2L and no M2L runs but P2P and L2P still do.
C2_InvocationCounts ==
    Returned =>
        /\ Count("p2m", 0) = 1
        /\ Count("p2p", 0) = 1
        /\ Count("l2p", 0) = 1
        /\ Count("m2p", 0) = Once(variant = "adaptive")
        /\ \A L \in 0..(depth + 1) :
            /\ Count("m2m", L) = Once(L \in 1..depth)
            /\ Count("m2l", L) = Once(L \in 2..depth)
            /\ Count("l2l", L) = Once(L \in 3..depth)
            /\ Count("p2l", L) = Once(variant = "adaptive" /\ L \in 2..depth)
        /\ \A i \in 1..Len(trace) :
            /\ trace[i][2] \in 0..depth
            /\ trace[i][1] \in {"p2m", "p2p", "l2p", "m2p"} => trace[i][2] = 0
        /\ depth < 2 =>
            \A i \in 1..Len(trace) : trace[i][1] \notin {"l2l", "m2l", "p2l"}

\* An adaptive run on a tree of depth >= 3 has returned, having made each
\* level's l2l, p2l and m2l calls.
C2_Witness ==
    /\ Returned
    /\ variant = "adaptive"
    /\ depth >= 3
    /\ Count("l2l", depth) = 1
    /\ Count("p2l", 2) = 1
    /\ Count("m2l", 2) = 1
    /\ Count("l2l", 2) = 0

\* C8: every write to an expansion precedes every use of it as a source: no
\* call adds to a multipole or a local that an earlier call of the run has
\* already read (by M2M, M2L, M2P, L2L or L2P).
C8_WritesBeforeReads ==
    \A i \in 1..Len(trace) : \A j \in (i + 1)..Len(trace) :
        Reads(trace[i], depth) \cap Writes(trace[j], depth) = {}

\* A run on a tree of depth >= 3 has returned in which l2l(3) read the locals
\* of level 2 that m2l(2) wrote, and m2m(2) read multipoles that m2m(3) wrote.
C8_Witness ==
    /\ Returned
    /\ depth >= 3
    /\ \E i \in 1..Len(trace) : \E j \in (i + 1)..Len(trace) :
        /\ trace[i] = Call("m2l", 2)
        /\ trace[j] = Call("l2l", 3)
        /\ Writes(trace[i], depth) \cap Reads(trace[j], depth) # {}
    /\ \E i \in 1..Len(trace) : \E j \in (i + 1)..Len(trace) :
        /\ trace[i] = Call("m2m", 3)
        /\ trace[j] = Call("m2m", 2)
        /\ Writes(trace[i], depth) \cap Reads(trace[j], depth) # {}

\* C23: for each driver and every depth, run(true) and run(false) invoke the
\* same sequence of operators with the same level arguments: the calls a run
\* has made are the calls the other arm of `match time` makes.
C23_TimingSameCalls == Returned => trace = run(variant, ~time, depth)

-----------------------------------------------------------------------------
(***************************************************************************)
(* Morton keys.  A key is <<level, x, y, z>>: the level and the box's      *)
(* integer grid coordinates at that level (0 .. 2^level - 1 on each axis). *)
(* The codec itself (parent, children, neighbors, is_adjacent, ...) lives  *)
(* in impl_morton.rs; it is modelled here from section 4.A of the design.  *)
(***************************************************************************)

NoKey == <<0 - 1, 0, 0, 0>>

ROOT == <<0, 0, 0, 0>>

level(k) == k[1]

Pow2(n) == 2 ^ n

\* All keys of one level, and of the levels lo..hi.
KeysAt(l) ==
    {<<l, x, y, z>> : x \in 0..(Pow2(l) - 1), y \in 0..(Pow2(l) - 1),
                      z \in 0..(Pow2(l) - 1)}

KeysBetween(lo, hi) == UNION {KeysAt(l) : l \in lo..hi}

\* parent: drop the lowest bit of each coordinate, level - 1.
parent(k) == <<k[1] - 1, k[2] \div 2, k[3] \div 2, k[4] \div 2>>

\* children: the 8 lowest-bit combinations, level + 1, in Morton order.
LowestBits ==
    [i \in 1..8 |-> <<((i - 1) \div 4) % 2, ((i - 1) \div 2) % 2, (i - 1) % 2>>]

child(k, i) ==
    <<k[1] + 1, (2 * k[2]) + LowestBits[i][1], (2 * k[3]) + LowestBits[i][2],
      (2 * k[4]) + LowestBits[i][3]>>

children(k) == [i \in 1..8 |-> child(k, i)]

siblings(k) == children(parent(k))

\* The 27 offsets of {-1,0,1}^3 in lexicographic order.
Offsets27 ==
    [i \in 1..27 |-> <<((i - 1) \div 9) - 1, (((i - 1) \div 3) % 3) - 1,
                       ((i - 1) % 3) - 1>>]

InDomain(k) ==
    /\ k[2] >= 0 /\ k[2] < Pow2(k[1])
    /\ k[3] >= 0 /\ k[3] < Pow2(k[1])
    /\ k[4] >= 0 /\ k[4] < Pow2(k[1])

\* neighbors: the up-to-26 boxes of the same level obtained by perturbing the
\* anchor by +-1 on each axis, those outside the domain dropped.
neighbors(k) ==
    LET Shifted == [i \in 1..27 |-> <<k[1], k[2] + Offsets27[i][1],
                                      k[3] + Offsets27[i][2],
                                      k[4] + Offsets27[i][3]>>]
        Keep(n) == n # k /\ InDomain(n)
    IN  SelectSeq(Shifted, Keep)

\* a is b or an ancestor of b.
IsAncestorOrSelf(a, b) ==
    /\ a[1] <= b[1]
    /\ LET s == Pow2(b[1] - a[1])
       IN  /\ b[2] \div s = a[2]
           /\ b[3] \div s = a[3]
           /\ b[4] \div s = a[4]

\* is_adjacent: the two boxes touch in a face, an edge or a vertex, compared
\* on the grid of the deeper of the two levels; overlapping boxes (a key and
\* its ancestor, or itself) are not adjacent.
is_adjacent(a, b) ==
    LET m  == IF a[1] > b[1] THEN a[1] ELSE b[1]
        sa == Pow2(m - a[1])
        sb == Pow2(m - b[1])
        Touch(i) == /\ a[i] * sa <= (b[i] + 1) * sb
                    /\ b[i] * sb <= (a[i] + 1) * sa
    IN  /\ Touch(2) /\ Touch(3) /\ Touch(4)
        /\ ~IsAncestorOrSelf(a, b)
        /\ ~IsAncestorOrSelf(b, a)

\* iter().flat_map(|n| n.children()) over a sequence of keys.
FlatChildren(s) ==
    [i \in 1..(8 * Len(s)) |-> child(s[((i - 1) \div 8) + 1], ((i - 1) % 8) + 1)]

\* iter().map(|n| n.parent()) over a sequence of keys.
MapParent(s) == [i \in 1..Len(s) |-> parent(s[i])]

Range(s) == {s[i] : i \in 1..Len(s)}

Contains(s, e) == \E i \in 1..Len(s) : s[i] = e

-----------------------------------------------------------------------------
(***************************************************************************)
(* Interaction lists (impl LocallyEssentialTree for MultiNodeTree).  Each  *)
(* list is the Vec the code builds, order and repetitions kept.            *)
(***************************************************************************)

Some(s) == [some |-> TRUE, keys |-> s]
None == [some |-> FALSE, keys |-> <<>>]

get_near_field(leaf) ==
    LET neighbours == neighbors(leaf)
        Adj(n) == is_adjacent(leaf, n)
        neighbors_children_adj == SelectSeq(FlatChildren(neighbours), Adj)
        neighbors_adj          == SelectSeq(neighbours, Adj)
        neighbors_parents_adj  == SelectSeq(MapParent(neighbours), Adj)
    IN  neighbors_children_adj \o neighbors_adj \o neighbors_parents_adj

get_interaction_list(k) ==
    IF level(k) >= 2
    THEN LET Keep(pnc) == is_adjacent(k, pnc)
         IN  Some(SelectSeq(FlatChildren(neighbors(parent(k))), Keep))
    ELSE None

get_w_list(leaf) ==
    LET Keep(nc) == ~is_adjacent(leaf, nc)
    IN  SelectSeq(FlatChildren(neighbors(leaf)), Keep)

\* A variant of get_x_list whose filter lacks the negation.
get_x_list_adjacent(leaf) ==
    LET Keep(pn) == is_adjacent(leaf, pn)
    IN  SelectSeq(neighbors(parent(leaf)), Keep)

get_x_list(leaf) ==
    LET Keep(pn) == ~is_adjacent(leaf, pn)
    IN  SelectSeq(neighbors(parent(leaf)), Keep)

NoLists ==
    /\ called = "none"
    /\ ulist = <<>>
    /\ vlist = None
    /\ wlist = <<>>
    /\ xlist = <<>>

IdleLists == key = NoKey /\ NoLists

\* Any key of the bounded octree, no list computed yet.
InitLists == key \in KeysBetween(0, MaxLevel) /\ NoLists

\* The key, one of the tree's keys_set, is handed to get_interaction_list
\* (get_let's loop over keys_set).
GetInteractionList ==
    /\ called = "none"
    /\ called' = "v"
    /\ vlist' = get_interaction_list(key)
    /\ UNCHANGED <<key, ulist, wlist, xlist>>
    /\ UNCHANGED notLists

\* The key, a leaf, is handed to the four list functions (get_let's loop over
\* the leaves).  The root has no parent, so a leaf has level >= 1.
GetLeafLists ==
    /\ called = "none"
    /\ level(key) >= 1
    /\ called' = "leaf"
    /\ ulist' = get_near_field(key)
    /\ vlist' = get_interaction_list(key)
    /\ wlist' = get_w_list(key)
    /\ xlist' = get_x_list(key)
    /\ UNCHANGED key
    /\ UNCHANGED notLists

NextLists == GetInteractionList \/ GetLeafLists

NotQueried ==
    /\ queried = FALSE
    /\ inX = FALSE
    /\ inW = FALSE

IdlePair == pairLeaf = NoKey /\ pairSrc = NoKey /\ NotQueried

\* Any leaf l (it has a parent) and any box s of the bounded octree above
\* its deepest level: the X list of a leaf holds boxes of the level of its
\* parent and the W list of a box holds boxes one level below it, so a box of
\* the deepest level is in no X list and has no leaf of the octree in its W
\* list.
InitPair ==
    /\ pairLeaf \in KeysBetween(1, MaxPairLevel)
    /\ pairSrc \in KeysBetween(0, MaxPairLevel - 1)
    /\ NotQueried

\* get_x_list(l) and get_w_list(s) are computed and searched for s and l.
QueryPair ==
    /\ ~queried
    /\ queried' = TRUE
    /\ inX' = Contains(get_x_list(pairLeaf), pairSrc)
    /\ inW' = Contains(get_w_list(pairSrc), pairLeaf)
    /\ UNCHANGED <<pairLeaf, pairSrc>>
    /\ UNCHANGED notPair

NextPair == QueryPair

-----------------------------------------------------------------------------
(* Properties of the interaction lists. *)

\* The V-list as stated: the children of the neighbours of parent(k) that are
\* not adjacent to k.
StatedVList(k) ==
    {c \in Range(FlatChildren(neighbors(parent(k)))) : ~is_adjacent(k, c)}

\* C3: for every key k of level >= 2, get_interaction_list(k) is exactly the
\* set of children of the neighbours of parent(k) that are not adjacent to k
\* (so it has at most 189 members and holds neither k nor a box adjacent to
\* k); for every key of level < 2 the V-list is absent.
C3_VListNotAdjacent ==
    called # "none" =>
        IF level(key) >= 2
        THEN /\ vlist.some
             /\ Range(vlist.keys) = StatedVList(key)
             /\ Cardinality(Range(vlist.keys)) <= 189
             /\ key \notin Range(vlist.keys)
             /\ \A b \in Range(vlist.keys) : ~is_adjacent(key, b)
        ELSE vlist = None

Disjoint(a, b) == a \cap b = {}

\* C4: for every leaf of level >= 2 the four lists U, V, W and X computed for
\* it are pairwise disjoint: no box appears in two of them.
C4_ListsDisjoint ==
    (called = "leaf" /\ level(key) >= 2) =>
        LET U == Range(ulist)
            V == Range(vlist.keys)
            W == Range(wlist)
            X == Range(xlist)
        IN  /\ Disjoint(U, V) /\ Disjoint(U, W) /\ Disjoint(U, X)
            /\ Disjoint(V, W) /\ Disjoint(V, X) /\ Disjoint(W, X)

\* C5: the X-list is the inverse relation of the W-list: s is in
\* get_x_list(l) if and only if l is in get_w_list(s).
C5_XInverseOfW == queried => (inX <=> inW)

\* A pair has been queried in which s is in X(l) and l is in W(s).
C5_Witness == queried /\ inX /\ inW /\ level(pairLeaf) = level(pairSrc) + 1

-----------------------------------------------------------------------------
(***************************************************************************)
(* Transfer vectors and the first phase of the SVD m2l                     *)
(* (field_translation.rs 391-416).  KiFmm::get_v_list,                     *)
(* MortonKey::find_transfer_vector and the library fmm.m2l.transfer_vectors *)
(* are defined outside these sources and are modelled from sections 4.A,   *)
(* 4.C and 4.E of the design.                                              *)
(***************************************************************************)

\* V(k) within a tree (a set of keys): the children of the neighbours of
\* parent(k) that are keys of the tree and not adjacent to k; absent below
\* level 2.
get_v_list(tree, k) ==
    IF level(k) >= 2
    THEN LET Keep(pnc) == pnc \in tree /\ ~is_adjacent(k, pnc)
         IN  Some(SelectSeq(FlatChildren(neighbors(parent(k))), Keep))
    ELSE None

\* The integer offset between the anchors of two boxes of one level, in box
\* widths.
Offset(a, b) == <<a[2] - b[2], a[3] - b[3], a[4] - b[4]>>

positive_map(n) == IF n < 0 THEN (2 * (0 - n)) + 1 ELSE 2 * n

\* The canonical integer hash of an offset: its three components, mapped to
\* naturals, packed in 8-bit fields (the offsets of V-lists need 3 bits).
HashOffset(d) ==
    (((positive_map(d[1]) * 256) + positive_map(d[2])) * 256)
        + positive_map(d[3])

find_transfer_vector(a, b) == HashOffset(Offset(a, b))

Abs(n) == IF n < 0 THEN 0 - n ELSE n

\* The offsets between a box of a tree and the sources of its V-list.
VListOffsets(tree, k) ==
    LET v_list == get_v_list(tree, k)
    IN  {Offset(k, v_list.keys[i]) : i \in 1..Len(v_list.keys)}

\* The offsets between a box of a complete tree and the boxes of its V-list:
\* the children of the neighbours of its parent that are not adjacent to it.
DenseVListOffsets(k) ==
    LET pnc == FlatChildren(neighbors(parent(k)))
    IN  {Offset(k, pnc[i]) : i \in {j \in 1..Len(pnc) : ~is_adjacent(k, pnc[j])}}

\* The library of M2L matrices enumerates the unique transfer vectors, the
\* offsets of the V-lists: here those of the boxes of the complete tree at
\* LibraryLevel.
TransferOffsets ==
    UNION {DenseVListOffsets(k) : k \in KeysAt(LibraryLevel)}

transfer_vectors == {HashOffset(d) : d \in TransferOffsets}

\* A variant of the bucket map that misses the library's smallest hash.
transfer_vector_to_m2l_skip_first ==
    LET first == CHOOSE h \in transfer_vectors :
                     \A g \in transfer_vectors : h <= g
    IN  [h \in transfer_vectors \ {first} |-> <<>>]

\* The map of buckets m2l starts with: an empty Vec for each transfer vector
\* of the library.
transfer_vector_to_m2l == [h \in transfer_vectors |-> <<>>]

\* Lines 403-407, what a closure collects before its loop: for each source of
\* the V-list of its target the transfer vector, as <<offset, hash>>, in the
\* order of the V-list; nothing when the target has no V-list.
calculated_transfer_vectors(tree, target) ==
    LET v_list == get_v_list(tree, target)
    IN  IF v_list.some
        THEN [i \in 1..Len(v_list.keys) |->
                 <<Offset(target, v_list.keys[i]),
                   find_transfer_vector(target, v_list.keys[i])>>]
        ELSE <<>>

\* The trees m2l is run on: a box of the level alone, or a box and one source
\* of its V-list.  Every pair of a target and a source of a level occurs.
TVTrees(l) ==
    {{t} : t \in KeysAt(l)} \cup
    UNION {{{t, s} : s \in Range(get_v_list(KeysAt(l), t).keys)} :
              t \in KeysAt(l)}

InitTV ==
    /\ tvLevel \in 2..MaxTVLevel
    /\ tvTree \in TVTrees(tvLevel)
    /\ tvRun = <<>>
    /\ tvSeen = {}
    /\ tvPanic = FALSE

\* Lines 402-407: par_iter runs the closures of the targets in any order and
\* side by side.  The closure of any target not yet begun begins and collects
\* the transfer vectors of its V-list.
M2LBegin ==
    /\ ~tvPanic
    /\ \E target \in tvTree \ DOMAIN tvRun :
        tvRun' = [t \in DOMAIN tvRun \cup {target} |->
                     IF t = target
                     THEN [tvs |-> calculated_transfer_vectors(tvTree, target),
                           at |-> 0]
                     ELSE tvRun[t]]
    /\ UNCHANGED <<tvLevel, tvTree, tvSeen, tvPanic>>
    /\ UNCHANGED notTV

\* Lines 408-414, one iteration of the loop of any closure begun: the bucket
\* of the transfer vector is looked up, locked and pushed to, and its guard is
\* dropped; a missing key makes .unwrap() panic, which ends m2l.
M2LLookup ==
    /\ ~tvPanic
    /\ \E target \in DOMAIN tvRun :
        /\ tvRun[target].at < Len(tvRun[target].tvs)
        /\ LET e == tvRun[target].tvs[tvRun[target].at + 1]
           IN  IF e[2] \in DOMAIN transfer_vector_to_m2l
               THEN /\ tvSeen' = tvSeen \cup {e}
                    /\ tvRun' = [tvRun EXCEPT ![target].at = @ + 1]
                    /\ UNCHANGED tvPanic
               ELSE /\ tvPanic' = TRUE
                    /\ UNCHANGED <<tvSeen, tvRun>>
    /\ UNCHANGED <<tvLevel, tvTree>>
    /\ UNCHANGED notTV

\* The first parallel loop has joined: every closure has begun and is over.
M2LJoined ==
    /\ DOMAIN tvRun = tvTree
    /\ \A t \in tvTree : tvRun[t].at = Len(tvRun[t].tvs)

NextTV == M2LBegin \/ M2LLookup

-----------------------------------------------------------------------------
(* Properties of the transfer vectors. *)

\* An offset of {-3..3}^3 with a component of magnitude >= 2.
IsTransferOffset(d) ==
    /\ \A i \in 1..3 : d[i] \in (0 - 3)..3
    /\ \E i \in 1..3 : Abs(d[i]) >= 2

\* The transfer vectors the library enumerates are 316 offsets with 316
\* distinct hashes, each in {-3..3}^3 with a component of magnitude >= 2.
LibraryHas316 ==
    /\ Cardinality(TransferOffsets) = 316
    /\ Cardinality(transfer_vectors) = 316
    /\ \A d \in TransferOffsets : IsTransferOffset(d)

\* C6: for a target t of a level >= 2 and a source s of V(t) the offset
\* between the anchors lies in {-3..3}^3 with a component of magnitude >= 2
\* and is a key of the library, so the lookup
\* transfer_vector_to_m2l.get(tv).unwrap() never fails; the offsets that occur
\* are exactly 316, with 316 distinct hashes.
C6_TransferVectors ==
    /\ ~tvPanic
    /\ \A e \in tvSeen :
        /\ IsTransferOffset(e[1])
        /\ e[1] \in TransferOffsets
        /\ e[2] \in transfer_vectors
    /\ M2LJoined =>
        \A t \in tvTree : VListOffsets(tvTree, t) \subseteq {e[1] : e \in tvSeen}
    /\ LibraryHas316

\* The loop has joined on a tree of two boxes, each in the V-list of the
\* other, and the offsets (3, 3, 3) and (-3, -3, -3) were looked up.
C6_Witness ==
    /\ M2LJoined
    /\ tvLevel >= 2
    /\ Cardinality(tvTree) = 2
    /\ \E e \in tvSeen : e[1] = <<3, 3, 3>>
    /\ \E e \in tvSeen : e[1] = <<0 - 3, 0 - 3, 0 - 3>>

-----------------------------------------------------------------------------
(***************************************************************************)
(* m2m(level) (field_translation.rs 118-140): one task per source box of   *)
(* the level, run by rayon in any interleaving.  A multipole is an integer *)
(* and the operator m2m[i] a factor, so that every contribution is         *)
(* positive and a lost or repeated one changes the sum.                    *)
(***************************************************************************)

NoTask == <<0 - 2, 0, 0, 0>>

\* The two parents whose children may be present at level 2.
M2MParents == {<<1, 0, 0, 0>>, <<1, 1, 1, 1>>}

\* The boxes that may be present at level 2: the eight children of one
\* parent and two children of the other.
M2MCandidates ==
    Range(children(<<1, 0, 0, 0>>))
        \cup {children(<<1, 1, 1, 1>>)[i] : i \in 1..2}

\* The boxes whose multipoles the call touches.
M2MBoxes(sources) == sources \cup {parent(c) : c \in sources} \cup M2MParents

\* source.siblings().iter().position(|&x| x == source).unwrap()
operator_index(source) ==
    (CHOOSE i \in 1..8 : siblings(source)[i] = source) - 1

\* fmm.m2m[operator_index].dot(&source_multipole)
m2m_dot(index, value) == (index + 1) * value

\* The multipoles before the call: a source holds 1 or 2 by the parity of its
\* anchor, every parent holds v.
MultipolesBefore(sources, v) ==
    [k \in M2MBoxes(sources) |->
        IF k \in sources THEN 1 + ((k[2] + k[3] + k[4]) % 2) ELSE v]

\* A variant of Mutex::lock that does not wait for the holder.
CanLockUnguarded(k) == TRUE

\* Mutex::lock returns once no task holds the mutex of multipole[k].
CanLock(k) == mmLock[k] = NoTask

InitM2M ==
    /\ mmTree \in {S \in SUBSET M2MCandidates :
                     Cardinality(S) \in 1..MaxSources}
    /\ \E v \in 0..1 : mmInit = MultipolesBefore(mmTree, v)
    /\ multipole = mmInit
    /\ mmLock = [k \in M2MBoxes(mmTree) |-> NoTask]
    /\ mmPc = [c \in mmTree |-> "start"]
    /\ mmOwned = [c \in mmTree |-> 0]
    /\ mmRead = [c \in mmTree |-> 0]

\* let source_multipole_lock = source_multipole_arc.lock().unwrap();
\* let target_multipole_owned = fmm_arc.m2m[operator_index].dot(..);
LockSource(c) ==
    /\ mmPc[c] = "start"
    /\ CanLock(c)
    /\ mmLock' = [mmLock EXCEPT ![c] = c]
    /\ mmOwned' = [mmOwned EXCEPT ![c] = m2m_dot(operator_index(c), multipole[c])]
    /\ mmPc' = [mmPc EXCEPT ![c] = "source_locked"]
    /\ UNCHANGED <<mmTree, multipole, mmRead, mmInit>>

\* let mut target_multipole_lock = target_multipole_arc.lock().unwrap();
LockTarget(c) ==
    /\ mmPc[c] = "source_locked"
    /\ CanLock(parent(c))
    /\ mmLock' = [mmLock EXCEPT ![parent(c)] = c]
    /\ mmPc' = [mmPc EXCEPT ![c] = "target_locked"]
    /\ UNCHANGED <<mmTree, multipole, mmOwned, mmRead, mmInit>>

\* target_multipole_lock.deref() + target_multipole_owned: the read
ReadTarget(c) ==
    /\ mmPc[c] = "target_locked"
    /\ mmRead' = [mmRead EXCEPT ![c] = multipole[parent(c)]]
    /\ mmPc' = [mmPc EXCEPT ![c] = "read"]
    /\ UNCHANGED <<mmTree, multipole, mmLock, mmOwned, mmInit>>

\* *target_multipole_lock.deref_mut() = (..).eval(): the write
WriteTarget(c) ==
    /\ mmPc[c] = "read"
    /\ multipole' = [multipole EXCEPT ![parent(c)] = mmRead[c] + mmOwned[c]]
    /\ mmPc' = [mmPc EXCEPT ![c] = "written"]
    /\ UNCHANGED <<mmTree, mmLock, mmOwned, mmRead, mmInit>>

\* The closure ends (line 138) and the guards are dropped in the reverse
\* order of their declaration: target_multipole_lock first.
DropTarget(c) ==
    /\ mmPc[c] = "written"
    /\ mmLock' = [mmLock EXCEPT ![parent(c)] = NoTask]
    /\ mmPc' = [mmPc EXCEPT ![c] = "target_dropped"]
    /\ UNCHANGED <<mmTree, multipole, mmOwned, mmRead, mmInit>>

\* Then source_multipole_lock is dropped and the task is over.
DropSource(c) ==
    /\ mmPc[c] = "target_dropped"
    /\ mmLock' = [mmLock EXCEPT ![c] = NoTask]
    /\ mmPc' = [mmPc EXCEPT ![c] = "done"]
    /\ UNCHANGED <<mmTree, multipole, mmOwned, mmRead, mmInit>>

M2MLockSource  == \E c \in mmTree : LockSource(c) /\ UNCHANGED notM2M
M2MLockTarget  == \E c \in mmTree : LockTarget(c) /\ UNCHANGED notM2M
M2MReadTarget  == \E c \in mmTree : ReadTarget(c) /\ UNCHANGED notM2M
M2MWriteTarget == \E c \in mmTree : WriteTarget(c) /\ UNCHANGED notM2M
M2MDropTarget  == \E c \in mmTree : DropTarget(c) /\ UNCHANGED notM2M
M2MDropSource  == \E c \in mmTree : DropSource(c) /\ UNCHANGED notM2M

NextM2M ==
    M2MLockSource \/ M2MLockTarget \/ M2MReadTarget \/ M2MWriteTarget
        \/ M2MDropTarget \/ M2MDropSource

\* par_iter().for_each has joined: m2m(level) returns.
M2MReturned == mmTree # {} /\ \A c \in mmTree : mmPc[c] = "done"

-----------------------------------------------------------------------------
(* Properties of m2m. *)

RECURSIVE SumOver(_, _)
SumOver(S, init) ==
    IF S = {} THEN 0
    ELSE LET c == CHOOSE x \in S : TRUE
         IN  m2m_dot(operator_index(c), init[c]) + SumOver(S \ {c}, init)

ChildrenPresent(q) == {c \in mmTree : parent(c) = q}

\* C7: the read-add-write of multipole[parent] happens while the parent's slot
\* is held by the task, so for every interleaving of the siblings no
\* contribution is lost or applied twice: when m2m returns, multipole[p] is its
\* value before the call plus the sum over the children c of p present at the
\* level of M2M[octant(c)] * multipole[c].
C7_M2MSum ==
    /\ \A c \in mmTree :
        mmPc[c] \in {"target_locked", "read", "written"} =>
            mmLock[parent(c)] = c
    /\ M2MReturned =>
        /\ \A k \in DOMAIN multipole :
            multipole[k] = mmInit[k] + SumOver(ChildrenPresent(k), mmInit)
        /\ \A k \in DOMAIN mmLock : mmLock[k] = NoTask

\* m2m has returned after three siblings contributed to one parent.
C7_Witness ==
    /\ M2MReturned
    /\ \E q \in M2MParents :
        /\ Cardinality(ChildrenPresent(q)) = 3
        /\ multipole[q] > mmInit[q]

-----------------------------------------------------------------------------
(***************************************************************************)
(* m2l(level) at level 2, SVD variant (field_translation.rs 391-495) and   *)
(* FFT variant (515-1094).  The tree is a sparse set of level-2 boxes.  A  *)
(* local expansion is the bag of the contributions added to it; a          *)
(* contribution is <<c_idx, multipole>>: the C block that was applied and  *)
(* the source multipole it was applied to.                                 *)
(***************************************************************************)

NoHolder == 0 - 1

\* What a task has read of a local: nothing, or the local it read under the lock.
NotRead == [held |-> FALSE, value |-> EmptyBag]

HasRead(b) == [held |-> TRUE, value |-> b]

\* The task of a target has not computed its v_list yet.
NotStarted == 0 - 1

\* The boxes that may be present at level 2: a row of four boxes and one box
\* beside its first.
M2LCandidates == {<<2, x, 0, 0>> : x \in 0..3} \cup {<<2, 0, 1, 0>>}

\* The multipoles on entry: one distinct value per box.
MultipolesAtEntry(tree) == [k \in tree |-> (10 * k[2]) + k[3] + 1]

\* The sources of V(target) in the tree, empty when get_v_list gives None.
v_list(target) == get_v_list(mlTree, target).keys

\* transfer_vectors.iter().position(|x| x.hash == *transfer_vector).unwrap()
c_idx(transfer_vector) ==
    Cardinality({h \in transfer_vectors : h < transfer_vector})

\* Column i of locals_owned: the C block c_idx applied to column i of
\* multipoles, the multipole read from the source of the i-th recorded pair.
locals_owned(transfer_vector, multipoles) ==
    [i \in 1..Len(multipoles) |-> <<c_idx(transfer_vector), multipoles[i]>>]

\* The task has read no source multipole and holds no guard of one.
NoMultipoles == [held |-> FALSE, multipoles |-> <<>>]

\* A variant of the block selection that always takes column 0.
target_local_owned_first(cols, i) == cols[1]

\* locals_owned.block((0, i), (ncoeffs, 1))
target_local_owned(cols, i) == cols[i]

\* The transfer vectors whose bucket holds at least one pair.
Loaded == {h \in DOMAIN mlBucket : Len(mlBucket[h]) > 0}

\* The (source, target) pairs of a tree: source is of the V-list of target.
VPairs(tree) ==
    {p \in tree \X tree :
        \E i \in 1..Len(get_v_list(tree, p[2]).keys) :
            get_v_list(tree, p[2]).keys[i] = p[1]}

InitM2L ==
    /\ mlTree \in {S \in SUBSET M2LCandidates :
                     /\ Cardinality(S) <= MaxLeaves
                     /\ Cardinality(VPairs(S)) <= MaxVPairs}
    /\ mlKind \in {"svd", "fft"}
    /\ mlMult = MultipolesAtEntry(mlTree)
    /\ mlPhase = "start"
    /\ mlVList = [t \in mlTree |-> None]
    /\ mlCursor = [t \in mlTree |-> NotStarted]
    /\ mlBucket = <<>>
    /\ mlGather = <<>>
    /\ mlCols = <<>>
    /\ mlDone = <<>>
    /\ mlLocal = [t \in mlTree |-> EmptyBag]
    /\ mlLock = [t \in mlTree |-> NoHolder]
    /\ mlRead = <<>>
    /\ mlPanic = FALSE

\* SVD m2l up to the first parallel loop: return when the level holds no key,
\* else create an empty bucket per transfer vector of the library.
SvdBegin ==
    /\ mlKind = "svd"
    /\ mlPhase = "start"
    /\ IF mlTree = {}
       THEN mlPhase' = "done" /\ UNCHANGED mlBucket
       ELSE mlPhase' = "fill" /\ mlBucket' = transfer_vector_to_m2l
    /\ UNCHANGED <<mlGather, mlTree, mlMult, mlKind, mlVList, mlCursor, mlCols, mlDone,
                   mlLocal, mlLock, mlRead, mlPanic>>
    /\ UNCHANGED notM2L

\* First parallel loop, task of one target: get_v_list, absent or empty when
\* the target has no V-list.
SvdVList ==
    /\ mlPhase = "fill"
    /\ ~mlPanic
    /\ \E target \in mlTree :
        /\ mlCursor[target] = NotStarted
        /\ mlVList' = [mlVList EXCEPT ![target] = get_v_list(mlTree, target)]
        /\ mlCursor' = [mlCursor EXCEPT ![target] = 0]
    /\ UNCHANGED <<mlGather, mlTree, mlMult, mlKind, mlPhase, mlBucket, mlCols, mlDone,
                   mlLocal, mlLock, mlRead, mlPanic>>
    /\ UNCHANGED notM2L

\* First parallel loop, one iteration of a target's loop over its v_list: the
\* bucket of the transfer vector is looked up (a missing key panics), locked,
\* and (source, target) is pushed.
SvdPush ==
    /\ mlPhase = "fill"
    /\ ~mlPanic
    /\ \E target \in mlTree :
        /\ mlCursor[target] # NotStarted
        /\ mlCursor[target] < Len(mlVList[target].keys)
        /\ LET source == mlVList[target].keys[mlCursor[target] + 1]
               transfer_vector == find_transfer_vector(target, source)
           IN  IF transfer_vector \in DOMAIN mlBucket
               THEN /\ mlBucket' = [mlBucket EXCEPT ![transfer_vector] =
                                        Append(@, <<source, target>>)]
                    /\ UNCHANGED mlPanic
               ELSE /\ mlPanic' = TRUE
                    /\ UNCHANGED mlBucket
        /\ mlCursor' = [mlCursor EXCEPT ![target] = @ + 1]
    /\ UNCHANGED <<mlGather, mlTree, mlMult, mlKind, mlPhase, mlVList, mlCols, mlDone,
                   mlLocal, mlLock, mlRead>>
    /\ UNCHANGED notM2L

\* The first loop has joined: the buckets are copied into the RwLock map and
\* the second parallel loop starts, one task per transfer vector.  The tasks
\* of empty buckets change nothing and are left out.
SvdCopy ==
    /\ mlPhase = "fill"
    /\ ~mlPanic
    /\ \A target \in mlTree :
        mlCursor[target] # NotStarted /\ mlCursor[target] = Len(mlVList[target].keys)
    /\ mlPhase' = "apply"
    /\ mlGather' = [h \in Loaded |-> NoMultipoles]
    /\ mlCols' = [h \in Loaded |-> <<>>]
    /\ mlDone' = [h \in Loaded |-> 0]
    /\ mlRead' = [h \in Loaded |-> NotRead]
    /\ UNCHANGED <<mlTree, mlMult, mlKind, mlVList, mlCursor, mlBucket, mlLocal,
                   mlLock, mlPanic>>
    /\ UNCHANGED notM2L

\* The mutex of multipole[source] is held by a task of the second loop.
MultipoleHeld(source) ==
    \E h \in DOMAIN mlGather :
        /\ mlGather[h].held
        /\ mlBucket[h][Len(mlGather[h].multipoles)][1] = source

\* Second loop, task of one transfer vector, iteration i of the loop over the
\* sources of its bucket (449-462): source_multipole_arc.lock() (451) and the
\* read of the multipole into column i.
SvdLockMultipole ==
    /\ mlPhase = "apply"
    /\ \E h \in DOMAIN mlCols :
        /\ ~mlGather[h].held
        /\ Len(mlGather[h].multipoles) < Len(mlBucket[h])
        /\ LET source == mlBucket[h][Len(mlGather[h].multipoles) + 1][1]
           IN  /\ ~MultipoleHeld(source)
               /\ mlGather' = [mlGather EXCEPT ![h] =
                     [held |-> TRUE,
                      multipoles |-> Append(mlGather[h].multipoles, mlMult[source])]]
    /\ UNCHANGED <<mlTree, mlMult, mlKind, mlPhase, mlVList, mlCursor, mlBucket,
                   mlCols, mlDone, mlLocal, mlLock, mlRead, mlPanic>>
    /\ UNCHANGED notM2L

\* The iteration ends (462): the guard of the source multipole is dropped.
SvdDropMultipole ==
    /\ mlPhase = "apply"
    /\ \E h \in DOMAIN mlCols :
        /\ mlGather[h].held
        /\ mlGather' = [mlGather EXCEPT ![h].held = FALSE]
    /\ UNCHANGED <<mlTree, mlMult, mlKind, mlPhase, mlVList, mlCursor, mlBucket,
                   mlCols, mlDone, mlLocal, mlLock, mlRead, mlPanic>>
    /\ UNCHANGED notM2L

\* After the loop over the sources (465-480): locals_owned is computed from
\* the columns the task has filled.
SvdGather ==
    /\ mlPhase = "apply"
    /\ \E h \in DOMAIN mlCols :
        /\ mlCols[h] = <<>>
        /\ ~mlGather[h].held
        /\ Len(mlGather[h].multipoles) = Len(mlBucket[h])
        /\ mlCols' = [mlCols EXCEPT ![h] = locals_owned(h, mlGather[h].multipoles)]
    /\ UNCHANGED <<mlGather, mlTree, mlMult, mlKind, mlPhase, mlVList, mlCursor, mlBucket,
                   mlDone, mlLocal, mlLock, mlRead, mlPanic>>
    /\ UNCHANGED notM2L

\* Assign loop, iteration i: target_local_arc.lock() and the read of the local.
SvdLockLocal ==
    /\ mlPhase = "apply"
    /\ \E h \in DOMAIN mlCols :
        /\ mlCols[h] # <<>>
        /\ mlDone[h] < Len(mlBucket[h])
        /\ ~mlRead[h].held
        /\ LET target == mlBucket[h][mlDone[h] + 1][2]
           IN  /\ mlLock[target] = NoHolder
               /\ mlLock' = [mlLock EXCEPT ![target] = h]
               /\ mlRead' = [mlRead EXCEPT ![h] = HasRead(mlLocal[target])]
    /\ UNCHANGED <<mlGather, mlTree, mlMult, mlKind, mlPhase, mlVList, mlCursor, mlBucket,
                   mlCols, mlDone, mlLocal, mlPanic>>
    /\ UNCHANGED notM2L

\* Assign loop, iteration i: the local plus column i is stored and the guard
\* is dropped.
SvdAddLocal ==
    /\ mlPhase = "apply"
    /\ \E h \in DOMAIN mlCols :
        /\ mlRead[h].held
        /\ LET i == mlDone[h] + 1
               target == mlBucket[h][i][2]
           IN  /\ mlLocal' = [mlLocal EXCEPT ![target] =
                   mlRead[h].value (+) SetToBag({target_local_owned(mlCols[h], i)})]
               /\ mlLock' = [mlLock EXCEPT ![target] = NoHolder]
               /\ mlDone' = [mlDone EXCEPT ![h] = i]
        /\ mlRead' = [mlRead EXCEPT ![h] = NotRead]
    /\ UNCHANGED <<mlGather, mlTree, mlMult, mlKind, mlPhase, mlVList, mlCursor, mlBucket,
                   mlCols, mlPanic>>
    /\ UNCHANGED notM2L

\* The second loop has joined: m2l returns.
SvdEnd ==
    /\ mlPhase = "apply"
    /\ \A h \in DOMAIN mlCols : mlCols[h] # <<>> /\ mlDone[h] = Len(mlBucket[h])
    /\ mlPhase' = "done"
    /\ UNCHANGED <<mlGather, mlTree, mlMult, mlKind, mlVList, mlCursor, mlBucket, mlCols,
                   mlDone, mlLocal, mlLock, mlRead, mlPanic>>
    /\ UNCHANGED notM2L

\* FFT m2l: the assertion level >= 2 holds at level 2, the keys of the level
\* and of the level above are fetched, and the function returns; no local is
\* touched.
FftM2L ==
    /\ mlKind = "fft"
    /\ mlPhase = "start"
    /\ mlPhase' = "done"
    /\ UNCHANGED <<mlGather, mlTree, mlMult, mlKind, mlVList, mlCursor, mlBucket, mlCols,
                   mlDone, mlLocal, mlLock, mlRead, mlPanic>>
    /\ UNCHANGED notM2L

NextM2L ==
    SvdBegin \/ SvdVList \/ SvdPush \/ SvdCopy \/ SvdLockMultipole
        \/ SvdDropMultipole \/ SvdGather \/ SvdLockLocal \/ SvdAddLocal
        \/ SvdEnd \/ FftM2L

-----------------------------------------------------------------------------
(* Properties of m2l. *)

\* The contributions m2l owes local[t]: for each source s of V(t), the C block
\* of the transfer vector of (s, t) applied to multipole[s].
OwedTo(t) ==
    LET v == v_list(t)
    IN  {<<c_idx(find_transfer_vector(t, v[i])), MultipolesAtEntry(mlTree)[v[i]]>> :
            i \in 1..Len(v)}

\* C9: SVD m2l adds to local[t], for every target t and every source s of
\* V(t), exactly one contribution for the pair (s, t), computed from
\* multipole[s] and the C block of the pair's transfer vector, whatever the
\* interleaving of the two parallel phases; locals of targets with an empty
\* V-list and all multipoles are unchanged.
C9_SvdM2LOncePerPair ==
    mlKind = "svd" =>
        /\ ~mlPanic
        /\ mlMult = MultipolesAtEntry(mlTree)
        /\ mlPhase = "done" =>
            \A t \in mlTree : mlLocal[t] = SetToBag(OwedTo(t))

\* SVD m2l has returned on a tree in which a bucket held two pairs and a
\* target received two contributions, from the tasks of two transfer vectors.
C9_Witness ==
    /\ mlKind = "svd"
    /\ mlPhase = "done"
    /\ \E h \in DOMAIN mlCols : Len(mlBucket[h]) >= 2
    /\ \E t \in mlTree : BagCardinality(mlLocal[t]) >= 2

\* C10: FFT m2l accumulates into local[t] one contribution for every source of
\* V(t): it updates the same locals, with the same number of contributions
\* each, as SVD m2l does on the same tree.
C10_FftSameAsSvd ==
    (mlKind = "fft" /\ mlPhase = "done") =>
        \A t \in mlTree : BagCardinality(mlLocal[t]) = Len(v_list(t))

-----------------------------------------------------------------------------
(***************************************************************************)
(* NewKiFmm::set_metadata (fmm/src/new_types.rs): the buffers, handles and *)
(* index pointers of the FMM object.  A buffer is the sequence of its      *)
(* elements; a handle (SendPtrMut) is the buffer it points into and the    *)
(* element offset from the start of that buffer.  The single-node tree     *)
(* (SingleNodeTreeNew) is not part of the sources at hand; it is modelled  *)
(* from section 3 of the design as a record                                *)
(*   [depth, keys (in index order), leaves (in leaf order), pts],          *)
(* pts[leaf] being the number of points of the leaf.                       *)
(***************************************************************************)

\* ncoeffs: 6 (p - 1)^2 + 2.  The square makes the integer value for p = 0
\* equal to the wrapped usize value.
ncoeffs(expansion_order) ==
    (6 * ((expansion_order - 1) * (expansion_order - 1))) + 2

\* kernel.space_dimension() of the 3D kernels.
space_dimension == 3

RECURSIVE ancestors(_)
\* ancestors: the key and all its ancestors up to the root.
ancestors(k) == IF k[1] = 0 THEN {k} ELSE {k} \cup ancestors(parent(k))

RECURSIVE MortonIndex(_)
\* The interleaved bits of a key's coordinates, x most significant.
MortonIndex(k) ==
    IF k[1] = 0 THEN 0
    ELSE (8 * MortonIndex(parent(k))) + (4 * (k[2] % 2)) + (2 * (k[3] % 2))
             + (k[4] % 2)

\* Ord of MortonKey: Morton order of the anchors, an ancestor before its
\* descendants.
KeyLess(a, b) ==
    LET m  == IF a[1] > b[1] THEN a[1] ELSE b[1]
        ma == MortonIndex(a) * (8 ^ (m - a[1]))
        mb == MortonIndex(b) * (8 ^ (m - b[1]))
    IN  ma < mb \/ (ma = mb /\ a[1] < b[1])

RECURSIVE SortKeys(_)
\* The keys of a set as a sorted Vec.
SortKeys(S) ==
    IF S = {} THEN <<>>
    ELSE LET least == CHOOSE x \in S : \A y \in S \ {x} : KeyLess(x, y)
         IN  <<least>> \o SortKeys(S \ {least})

RECURSIVE SumPts(_, _)
SumPts(pts, S) ==
    IF S = {} THEN 0
    ELSE LET k == CHOOSE x \in S : TRUE IN pts[k] + SumPts(pts, S \ {k})

\* Number of points of a tree.
NPoints(t) == SumPts(t.pts, DOMAIN t.pts)

\* The tree with the given leaves and points per leaf.
SingleNodeTreeNew(leafset, pts) ==
    [depth  |-> (CHOOSE k \in leafset : TRUE)[1],
     leaves |-> SortKeys(leafset),
     keys   |-> SortKeys(UNION {ancestors(k) : k \in leafset}),
     pts    |-> pts]

get_depth(t) == t.depth

get_nkeys(t) == Len(t.keys)

get_nleaves(t) == Len(t.leaves)

get_all_leaves(t) == t.leaves

\* get_all_coordinates().len(): space_dimension coordinates per point.
get_all_coordinates_len(t) == space_dimension * NPoints(t)

\* get_keys(level): the keys of the level, in index order.
get_keys(t, l) ==
    LET AtLevel(k) == k[1] = l IN SelectSeq(t.keys, AtLevel)

NoIndex == 0 - 1

\* get_index(key): Some(position of the key), None (NoIndex) for a key that
\* is not of the tree.
get_index(t, k) ==
    IF Contains(t.keys, k)
    THEN (CHOOSE i \in 1..Len(t.keys) : t.keys[i] = k) - 1
    ELSE NoIndex

\* get_coordinates(leaf): Some(slice) for a leaf holding points, given here
\* by the length of the slice, None (NoIndex) otherwise.
get_coordinates_len(t, leaf) ==
    IF leaf \in DOMAIN t.pts /\ t.pts[leaf] > 0
    THEN space_dimension * t.pts[leaf]
    ELSE NoIndex

\* impl FmmTree for SingleNodeFmmTree: each getter returns the other field.
get_source_tree(tree) == tree.target_tree

get_target_tree(tree) == tree.source_tree

SendPtrMut(buf, off) == [buf |-> buf, off |-> off]

\* SendPtrMut::default(): the null pointer.
SendPtrDefault == SendPtrMut("null", 0)

\* vec![W::default(); n]
Zeros(n) == [i \in 1..n |-> 0]

EvalTypes == {"Value", "ValueDeriv"}

eval_size(eval_type) ==
    IF eval_type = "Value" THEN 1 ELSE space_dimension + 1

\* NewKiFmm::default(): the metadata fields of a fresh object.
DefaultFmm ==
    [multipoles               |-> <<>>,
     locals                   |-> <<>>,
     leaf_multipoles          |-> <<>>,
     leaf_locals              |-> <<>>,
     level_multipoles         |-> <<>>,
     level_locals             |-> <<>>,
     level_index_pointer      |-> <<>>,
     potentials               |-> <<>>,
     potentials_send_pointers |-> <<>>,
     charge_index_pointer     |-> <<>>]

NoLocals == <<>>

\* The leaf sets the trees are drawn from: the non-empty subsets of the first
\* MaxMetaLeaves boxes of a level.
MetaLeafSets ==
    UNION {LET all   == SortKeys(KeysAt(d))
               n     == IF Len(all) < MaxMetaLeaves THEN Len(all)
                        ELSE MaxMetaLeaves
               first == {all[i] : i \in 1..n}
           IN  (SUBSET first) \ {{}} : d \in 0..MaxMetaDepth}

MetaTrees ==
    UNION {{SingleNodeTreeNew(S, pts) : pts \in [S -> 0..MaxLeafPoints]} :
               S \in MetaLeafSets}

IdleMeta ==
    /\ mdTree = <<>>
    /\ mdEval = "Value"
    /\ mdOrder = 0
    /\ mdPc = "done"
    /\ mdLocal = NoLocals
    /\ fmm = DefaultFmm

\* The object build() hands to set_metadata: tree, expansion_order and ncoeffs
\* set, every metadata field at its default.
InitMeta ==
    /\ mdTree \in [source_tree : MetaTrees, target_tree : MetaTrees]
    /\ mdEval \in EvalTypes
    /\ mdOrder \in 2..MaxMetaOrder
    /\ mdPc = "sizes"
    /\ mdLocal = NoLocals
    /\ fmm = DefaultFmm

\* Lines 611-687: eval_size, the counts read from the two trees and the
\* vec![] allocations.
MetaSizes ==
    /\ mdPc = "sizes"
    /\ LET src == get_source_tree(mdTree)
           tgt == get_target_tree(mdTree)
           nc  == ncoeffs(mdOrder)
           ntarget_points == get_all_coordinates_len(tgt)
           ntarget_leaves == get_nleaves(tgt)
       IN  mdLocal' =
             [multipoles  |-> Zeros(nc * get_nkeys(src)),
              locals      |-> Zeros(nc * get_nkeys(tgt)),
              level_multipoles |-> [l \in 0..get_depth(src) |-> <<>>],
              level_locals     |-> [l \in 0..get_depth(tgt) |-> <<>>],
              level_index_pointer_multipoles |->
                  [l \in 0..get_depth(src) |-> <<>>],
              level_index_pointer_locals |->
                  [l \in 0..get_depth(tgt) |-> <<>>],
              leaf_multipoles |-> <<>>,
              leaf_locals     |-> <<>>,
              potentials  |-> Zeros(ntarget_points * eval_size(mdEval)),
              potentials_send_pointers |->
                  [i \in 1..ntarget_leaves |-> SendPtrDefault],
              charge_index_pointer |->
                  [i \in 1..ntarget_leaves |-> <<0, 0>>]]
    /\ mdPc' = "level_multipoles"
    /\ UNCHANGED <<mdTree, mdEval, mdOrder, fmm>>
    /\ UNCHANGED notMeta

\* The handles of one level: for each key of `keys_of`, in level order, the
\* slot ncoeffs * idx of the buffer, idx looked up in `index_of`.
LevelHandles(keys_of, index_of, buf, nc, l) ==
    LET keys == get_keys(keys_of, l)
    IN  [j \in 1..Len(keys) |-> SendPtrMut(buf, nc * get_index(index_of, keys[j]))]

\* The map key -> level_idx of one level.
LevelIndex(keys_of, l) ==
    LET keys == get_keys(keys_of, l)
    IN  [k \in Range(keys) |-> (CHOOSE j \in 1..Len(keys) : keys[j] = k) - 1]

\* Lines 691-705: the loop over the levels of get_source_tree().
MetaLevelMultipoles ==
    /\ mdPc = "level_multipoles"
    /\ LET src == get_source_tree(mdTree)
           nc  == ncoeffs(mdOrder)
       IN  mdLocal' =
             [mdLocal EXCEPT
                !.level_multipoles =
                    [l \in 0..get_depth(src) |->
                        LevelHandles(src, src, "multipoles", nc, l)],
                !.level_index_pointer_multipoles =
                    [l \in 0..get_depth(src) |-> LevelIndex(src, l)]]
    /\ mdPc' = "level_locals"
    /\ UNCHANGED <<mdTree, mdEval, mdOrder, fmm>>
    /\ UNCHANGED notMeta

\* Line 711: self.tree.get_source_tree().get_index(key).unwrap() for every
\* key of get_target_tree() panics when some key is not of the other tree.
set_metadata_panics(tree) ==
    LET tgt == get_target_tree(tree)
        idx == get_source_tree(tree)
    IN  \E i \in 1..Len(tgt.keys) : get_index(idx, tgt.keys[i]) = NoIndex

\* Lines 706-719: the loop over the levels of get_target_tree(); the index of
\* a key is asked of get_source_tree() and unwrapped, which panics for a key
\* that tree does not have.
MetaLevelLocals ==
    /\ mdPc = "level_locals"
    /\ LET tgt == get_target_tree(mdTree)
           idx == get_source_tree(mdTree)
           nc  == ncoeffs(mdOrder)
       IN  IF set_metadata_panics(mdTree)
           THEN /\ mdPc' = "panic"
                /\ UNCHANGED mdLocal
           ELSE /\ mdPc' = "leaf_handles"
                /\ mdLocal' =
                     [mdLocal EXCEPT
                        !.level_locals =
                            [l \in 0..get_depth(tgt) |->
                                LevelHandles(tgt, idx, "locals", nc, l)],
                        !.level_index_pointer_locals =
                            [l \in 0..get_depth(tgt) |-> LevelIndex(tgt, l)]]
    /\ UNCHANGED <<mdTree, mdEval, mdOrder, fmm>>
    /\ UNCHANGED notMeta

\* The handles of the leaves of a tree, in leaf order.
LeafHandles(t, buf, nc) ==
    LET leaves == get_all_leaves(t)
    IN  [i \in 1..Len(leaves) |-> SendPtrMut(buf, get_index(t, leaves[i]) * nc)]

\* Lines 722-750: the two loops over the leaves.
MetaLeafHandles ==
    /\ mdPc = "leaf_handles"
    /\ LET nc == ncoeffs(mdOrder)
       IN  mdLocal' =
             [mdLocal EXCEPT
                !.leaf_multipoles =
                    LeafHandles(get_source_tree(mdTree), "multipoles", nc),
                !.leaf_locals =
                    LeafHandles(get_target_tree(mdTree), "locals", nc)]
    /\ mdPc' = "potentials"
    /\ UNCHANGED <<mdTree, mdEval, mdOrder, fmm>>
    /\ UNCHANGED notMeta

\* Lines 753-777: the loop over the target leaves.  npoints and nevals are
\* computed and not used; potential_raw_pointer is never advanced, so every
\* leaf gets the start of the buffer; charge_index_pointer is not written.
MetaPotentials ==
    /\ mdPc = "potentials"
    /\ LET leaves == get_all_leaves(get_target_tree(mdTree))
       IN  mdLocal' =
             [mdLocal EXCEPT
                !.potentials_send_pointers =
                    [i \in 1..Len(leaves) |-> SendPtrMut("potentials", 0)]]
    /\ mdPc' = "return"
    /\ UNCHANGED <<mdTree, mdEval, mdOrder, fmm>>
    /\ UNCHANGED notMeta

\* Line 778: set_metadata returns.  Nothing was assigned to a field of self:
\* the locals are dropped and the object keeps its default metadata.
MetaReturn ==
    /\ mdPc = "return"
    /\ mdPc' = "done"
    /\ mdLocal' = NoLocals
    /\ UNCHANGED <<mdTree, mdEval, mdOrder, fmm>>
    /\ UNCHANGED notMeta

NextMeta ==
    \/ MetaSizes
    \/ MetaLevelMultipoles
    \/ MetaLevelLocals
    \/ MetaLeafHandles
    \/ MetaPotentials
    \/ MetaReturn

MetaReturned == mdPc = "done" /\ mdTree # <<>>

-----------------------------------------------------------------------------
(* Properties of the metadata.  The source tree and the target tree are the *)
(* fields of that name of the SingleNodeFmmTree.                            *)

\* The half-open range of the potentials buffer a leaf's handle addresses.
PotentialRange(i) ==
    LET cip == fmm.charge_index_pointer[i]
        es  == eval_size(mdEval)
        off == fmm.potentials_send_pointers[i].off
    IN  {off + j : j \in 0..((es * (cip[2] - cip[1])) - 1)}

\* C11: after the metadata is set, the potential handle of target leaf i
\* points at offset eval_size * l_i of the potentials buffer, with
\* (l_i, r_i) = charge_index_pointer[i], and the ranges of length
\* eval_size * (r_i - l_i) of distinct leaves that contain points are pairwise
\* disjoint.
C11_PotentialHandlesDisjoint ==
    MetaReturned =>
        LET leaves == mdTree.target_tree.leaves
            pts    == mdTree.target_tree.pts
        IN  /\ Len(fmm.potentials_send_pointers) = Len(leaves)
            /\ Len(fmm.charge_index_pointer) = Len(leaves)
            /\ \A i \in 1..Len(leaves) :
                   fmm.potentials_send_pointers[i] =
                       SendPtrMut("potentials",
                                  eval_size(mdEval) * fmm.charge_index_pointer[i][1])
            /\ \A i, j \in 1..Len(leaves) :
                   (i # j /\ pts[leaves[i]] > 0 /\ pts[leaves[j]] > 0) =>
                       PotentialRange(i) \cap PotentialRange(j) = {}

\* C12: charge_index_pointer has one entry (l, r) per leaf, in leaf order,
\* with l <= r and r - l the number of points of the leaf; the first l is 0,
\* each later l is the previous r, and the last r is the number of points.
C12_ChargeIndexPartition ==
    MetaReturned =>
        LET leaves == mdTree.target_tree.leaves
            pts    == mdTree.target_tree.pts
            cip    == fmm.charge_index_pointer
        IN  /\ Len(cip) = Len(leaves)
            /\ \A i \in 1..Len(leaves) :
                   /\ cip[i][1] <= cip[i][2]
                   /\ cip[i][2] - cip[i][1] = pts[leaves[i]]
                   /\ cip[i][1] = (IF i = 1 THEN 0 ELSE cip[i - 1][2])
            /\ cip[Len(leaves)][2] = NPoints(mdTree.target_tree)

\* The handles of one tree are as stated: the handle at position
\* level_index_pointer[level][key] of the level points at ncoeffs * index(key)
\* of the buffer, and each leaf handle equals the level handle of its key.
HandlesAsStated(t, buf, level_handles, leaf_handles) ==
    LET nc == ncoeffs(mdOrder)
    IN  /\ DOMAIN level_handles = 0..t.depth
        /\ DOMAIN fmm.level_index_pointer = 0..t.depth
        /\ \A i \in 1..Len(t.keys) :
               LET k == t.keys[i]
                   l == k[1]
               IN  /\ k \in DOMAIN fmm.level_index_pointer[l]
                   /\ (fmm.level_index_pointer[l][k] + 1) \in
                          DOMAIN level_handles[l]
                   /\ level_handles[l][fmm.level_index_pointer[l][k] + 1] =
                          SendPtrMut(buf, nc * get_index(t, k))
        /\ Len(leaf_handles) = Len(t.leaves)
        /\ \A i \in 1..Len(t.leaves) :
               leaf_handles[i] =
                   SendPtrMut(buf, nc * get_index(t, t.leaves[i]))

\* C13: after build, the object holds a multipole buffer of
\* ncoeffs * (number of source-tree keys) zeros and a local buffer of
\* ncoeffs * (number of target-tree keys) zeros, and every key's handle points
\* at ncoeffs * index(key) of the buffer of its own tree.
C13_ExpansionBuffers ==
    MetaReturned =>
        /\ fmm.multipoles =
               Zeros(ncoeffs(mdOrder) * Len(mdTree.source_tree.keys))
        /\ fmm.locals =
               Zeros(ncoeffs(mdOrder) * Len(mdTree.target_tree.keys))
        /\ HandlesAsStated(mdTree.source_tree, "multipoles",
                           fmm.level_multipoles, fmm.leaf_multipoles)
        /\ HandlesAsStated(mdTree.target_tree, "locals",
                           fmm.level_locals, fmm.leaf_locals)

\* C14: the potentials buffer has length target_count * eval_size, with
\* target_count the number of target points, eval_size 1 for Value and 4 for
\* ValueDeriv.
C14_PotentialsLength ==
    MetaReturned =>
        Len(fmm.potentials) =
            NPoints(mdTree.target_tree) * (IF mdEval = "Value" THEN 1 ELSE 4)

-----------------------------------------------------------------------------
(***************************************************************************)
(* NodeData (tree/src/types/data.rs): the expansion data of one node.  The *)
(* Rust Vecs are 0-based; field_size[0] is FieldAt(ndFieldSize, 0) here.   *)
(***************************************************************************)

\* v[i] of a Vec, i counted from 0.
FieldAt(v, i) == v[i + 1]

NotSet == [set |-> FALSE, value |-> <<>>]

WasSet(data) == [set |-> TRUE, value |-> data]

NoCall == [call |-> "none", outcome |-> "ok", value |-> <<>>]

Returns(call, value) == [call |-> call, outcome |-> "ok", value |-> value]

Panics(call) == [call |-> call, outcome |-> "panic", value |-> <<>>]

NodeTypes == {"Default", "Fmm"}

\* default_data() and fmm_data(): field_size and displacement.
NodeDataNew(node_type) ==
    IF node_type = "Default"
    THEN [field_size |-> <<1>>, displacement |-> <<0>>]
    ELSE [field_size |-> <<1, 1>>, displacement |-> <<0, 1>>]

RECURSIVE PrefixSum(_, _)
PrefixSum(v, n) == IF n = 0 THEN 0 ELSE v[n] + PrefixSum(v, n - 1)

\* .iter().scan(0, ..): the exclusive running sum.
Scan(v) == [i \in 1..Len(v) |-> PrefixSum(v, i - 1)]

\* The coefficient vectors handed to the setters: constant vectors.
Coefficients(n) == {[i \in 1..n |-> v] : v \in 1..MaxCoefficient}

IdleData ==
    /\ ndChecks = FALSE
    /\ ndFieldSize = <<>>
    /\ ndDisplacement = <<>>
    /\ ndData = <<>>
    /\ ndOrder = NoIndex
    /\ ndSetM = NotSet
    /\ ndSetL = NotSet
    /\ ndLast = Panics("none")

\* NodeData::new(node_type), in a build with or without overflow checks.
InitData ==
    /\ ndChecks \in BOOLEAN
    /\ \E node_type \in NodeTypes :
        /\ ndFieldSize = NodeDataNew(node_type).field_size
        /\ ndDisplacement = NodeDataNew(node_type).displacement
    /\ ndData = <<>>
    /\ ndOrder = NoIndex
    /\ ndSetM = NotSet
    /\ ndSetL = NotSet
    /\ ndLast = NoCall

DataRunning == ndLast.outcome = "ok"

\* set_expansion_order(order): order - 1 overflows for order = 0, which panics
\* with overflow checks and wraps without (the square of the wrapped value is
\* 1).
DataSetExpansionOrder ==
    /\ DataRunning
    /\ \E order \in 0..MaxDataOrder :
        IF order = 0 /\ ndChecks
        THEN /\ ndLast' = Panics("set_expansion_order")
             /\ UNCHANGED <<ndFieldSize, ndDisplacement, ndOrder>>
        ELSE /\ ndFieldSize' = <<ncoeffs(order), ncoeffs(order)>>
             /\ ndDisplacement' = Scan(ndFieldSize')
             /\ ndOrder' = order
             /\ ndLast' = Returns("set_expansion_order", <<>>)
    /\ UNCHANGED <<ndChecks, ndData, ndSetM, ndSetL>>
    /\ UNCHANGED notData

\* data.split_at(self.displacement[1]): panics when displacement has no
\* element 1 or when the vector is shorter than it.
SplitAtPanics(data) ==
    \/ Len(ndDisplacement) < 2
    \/ FieldAt(ndDisplacement, 1) > Len(data)

\* The vectors a setter is called with: of the length of a field, or empty.
SetterArguments == Coefficients(FieldAt(ndFieldSize, 0)) \cup {<<>>}

\* set_multipole_expansion(data): the argument is split and the local binding
\* _multipole is re-pointed at it; self is not written.
DataSetMultipole ==
    /\ DataRunning
    /\ \E data \in SetterArguments :
        IF SplitAtPanics(data)
        THEN /\ ndLast' = Panics("set_multipole_expansion")
             /\ UNCHANGED ndSetM
        ELSE /\ ndLast' = Returns("set_multipole_expansion", <<>>)
             /\ ndSetM' = WasSet(data)
    /\ UNCHANGED <<ndChecks, ndFieldSize, ndDisplacement, ndData, ndOrder, ndSetL>>
    /\ UNCHANGED notData

\* set_local_expansion(data): likewise.
DataSetLocal ==
    /\ DataRunning
    /\ \E data \in SetterArguments :
        IF SplitAtPanics(data)
        THEN /\ ndLast' = Panics("set_local_expansion")
             /\ UNCHANGED ndSetL
        ELSE /\ ndLast' = Returns("set_local_expansion", <<>>)
             /\ ndSetL' = WasSet(data)
    /\ UNCHANGED <<ndChecks, ndFieldSize, ndDisplacement, ndData, ndOrder, ndSetM>>
    /\ UNCHANGED notData

\* self.data[self.displacement[0]..self.displacement[1]].to_vec(): panics
\* when displacement has no element 1 or the range does not lie in data.
SliceOfData(call) ==
    IF Len(ndDisplacement) < 2 THEN Panics(call)
    ELSE LET lo == FieldAt(ndDisplacement, 0)
             hi == FieldAt(ndDisplacement, 1)
         IN  IF lo > hi \/ hi > Len(ndData) THEN Panics(call)
             ELSE Returns(call, SubSeq(ndData, lo + 1, hi))

\* get_multipole_expansion()
DataGetMultipole ==
    /\ DataRunning
    /\ ndLast' = SliceOfData("get_multipole_expansion")
    /\ UNCHANGED <<ndChecks, ndFieldSize, ndDisplacement, ndData, ndOrder, ndSetM, ndSetL>>
    /\ UNCHANGED notData

\* get_local_expansion()
DataGetLocal ==
    /\ DataRunning
    /\ ndLast' = SliceOfData("get_local_expansion")
    /\ UNCHANGED <<ndChecks, ndFieldSize, ndDisplacement, ndData, ndOrder, ndSetM, ndSetL>>
    /\ UNCHANGED notData

\* (x as f64).sqrt() as usize: the integer part of the square root.
sqrt(x) == CHOOSE r \in 0..x : r * r <= x /\ x < (r + 1) * (r + 1)

\* ((usize::MAX / 6) as f64).sqrt() as usize + 1: what line 67 returns when
\* field_size[0] - 2 wraps (field_size[0] = 1, no overflow checks).
WrappedOrder == 1753413057

\* get_expansion_order(): field_size[0] - 2 overflows for field_size[0] = 1,
\* which panics with overflow checks and wraps without.
DataGetExpansionOrder ==
    /\ DataRunning
    /\ LET size == FieldAt(ndFieldSize, 0)
       IN  ndLast' =
             IF size > 0
             THEN IF size < 2
                  THEN IF ndChecks THEN Panics("get_expansion_order")
                       ELSE Returns("get_expansion_order", <<WrappedOrder>>)
                  ELSE Returns("get_expansion_order", <<sqrt((size - 2) \div 6) + 1>>)
             ELSE Returns("get_expansion_order", <<0>>)
    /\ UNCHANGED <<ndChecks, ndFieldSize, ndDisplacement, ndData, ndOrder, ndSetM, ndSetL>>
    /\ UNCHANGED notData

NextData ==
    \/ DataSetExpansionOrder
    \/ DataSetMultipole
    \/ DataSetLocal
    \/ DataGetMultipole
    \/ DataGetLocal
    \/ DataGetExpansionOrder

\* C15: with expansion order p set, after set_multipole_expansion(m) and
\* set_local_expansion(l), m and l of length ncoeffs(p) and m # l,
\* get_multipole_expansion() returns m and get_local_expansion() returns l.
C15_ExpansionsIndependent ==
    (/\ ndOrder >= 1
     /\ ndSetM.set /\ Len(ndSetM.value) = ncoeffs(ndOrder)
     /\ ndSetL.set /\ Len(ndSetL.value) = ncoeffs(ndOrder)
     /\ ndSetM.value # ndSetL.value) =>
        /\ ndLast.call = "get_multipole_expansion" =>
               ndLast = Returns(ndLast.call, ndSetM.value)
        /\ ndLast.call = "get_local_expansion" =>
               ndLast = Returns(ndLast.call, ndSetL.value)

\* C30: for every order p >= 1, after set_expansion_order(p) both field
\* sizes are ncoeffs(p) = 6(p-1)^2 + 2, the displacements are [0, ncoeffs(p)]
\* and get_expansion_order() returns p; and get_expansion_order() is total on
\* every reachable NodeData, one fresh from NodeData::new included: it
\* returns, and field_size[0] - 2 does not underflow.
C30_ExpansionOrder ==
    /\ (ndOrder >= 1 /\ ndLast.outcome = "ok") =>
           /\ ndFieldSize = <<(6 * (ndOrder - 1) * (ndOrder - 1)) + 2,
                               (6 * (ndOrder - 1) * (ndOrder - 1)) + 2>>
           /\ ndDisplacement = <<0, (6 * (ndOrder - 1) * (ndOrder - 1)) + 2>>
           /\ ndLast.call = "get_expansion_order" => ndLast.value = <<ndOrder>>
    /\ ndLast.call = "get_expansion_order" =>
           /\ ndLast.outcome = "ok"
           /\ FieldAt(ndFieldSize, 0) = 0 \/ FieldAt(ndFieldSize, 0) >= 2

-----------------------------------------------------------------------------
(***************************************************************************)
(* KiFmmBuilderSingleNode (fmm/src/new_types.rs): new, tree, parameters    *)
(* and build.  Every method takes the builder by value, so the builder is  *)
(* gone after a call that does not hand it back.  An Option field is a     *)
(* record with the flag `some`.                                            *)
(***************************************************************************)

Absent == [some |-> FALSE]

Present(v) == [some |-> TRUE, value |-> v]

\* KiFmmBuilderSingleNode::new(): every field None.
BuilderNew ==
    [tree             |-> Absent,
     source_domain    |-> Absent,
     target_domain    |-> Absent,
     domain           |-> Absent,
     source_to_target |-> Absent,
     kernel           |-> Absent,
     expansion_order  |-> Absent,
     ncoeffs          |-> Absent,
     eval_type        |-> Absent]

\* The outcome of a builder call, with what the call was given and the
\* methods of the NewKiFmm that build() called and that returned.
BuilderResult(call, outcome, why, had_tree, args) ==
    [call |-> call, outcome |-> outcome, why |-> why, had_tree |-> had_tree,
     args |-> args, calls |-> <<>>]

NoArgs == [expansion_order |-> NoIndex, n_crit |-> Absent, nsources |-> NoIndex,
           ntargets |-> NoIndex]

\* The n_crit arguments of tree: None or Some(n).
NCritArguments == {Absent} \cup {Present(n) : n \in 0..MaxNCrit}

SparseArguments == {Absent, Present(TRUE), Present(FALSE)}

\* Domain::from_local_points(points): the bounding box of the points, written
\* as the set of the point sets it bounds.
from_local_points(points) == {points}

\* Domain::union: the bounding box of both.
domain_union(a, b) == a \cup b

\* get_domain of SingleNodeFmmTree (lines 165-167).
get_domain(tree) == tree.domain

\* Domain::from_local_points and SingleNodeTreeNew::new are not part of the
\* sources at hand: by section 4.B an empty input fails, and a function that
\* returns the tree itself can only fail by panicking.
TreeConstructionFails(nsources, ntargets) == nsources = 0 \/ ntargets = 0

\* The leaves of the trees tree() can build.
BuilderLeafSets ==
    {{ROOT}, {<<1, 0, 0, 0>>}, {<<1, 0, 0, 1>>}, {<<1, 0, 0, 0>>, <<1, 0, 0, 1>>}}

\* The trees of npoints points: any of the leaf sets, every leaf holding
\* some of the points.
BuilderTreesOf(npoints) ==
    UNION {{SingleNodeTreeNew(S, pts) :
               pts \in {f \in [S -> 1..npoints] : SumPts(f, S) = npoints}} :
           S \in BuilderLeafSets}

\* SingleNodeTreeNew::new(points, n_crit, sparse, self.domain): the tree, with
\* what it was built from.
BuiltTree(t, npoints, n_crit, sparse, domain) ==
    [depth |-> t.depth, leaves |-> t.leaves, keys |-> t.keys, pts |-> t.pts,
     npoints |-> npoints, n_crit |-> n_crit, sparse |-> sparse,
     domain |-> Present(domain)]

IdleBuilder ==
    /\ bld = BuilderNew
    /\ bldAlive = FALSE
    /\ bldChecks = FALSE
    /\ bldLast = BuilderResult("none", "ok", "", FALSE, NoArgs)

\* KiFmmBuilderSingleNode::new() has returned, in a build with or without
\* overflow checks.
InitBuilder ==
    /\ bld = BuilderNew
    /\ bldAlive = TRUE
    /\ bldChecks \in BOOLEAN
    /\ bldLast = BuilderResult("new", "ok", "", FALSE, NoArgs)

\* tree(sources, targets, n_crit, sparse): sets domain and tree and hands the
\* builder back; source_domain and target_domain are locals, the fields of
\* that name are not written.
BuilderTree ==
    /\ bldAlive
    /\ \E nsources \in 0..MaxBuilderPoints, ntargets \in 0..MaxBuilderPoints,
          n_crit \in NCritArguments, sparse \in SparseArguments :
        LET args == [NoArgs EXCEPT !.n_crit = n_crit, !.nsources = nsources,
                                   !.ntargets = ntargets]
            source_domain == from_local_points("sources")
            target_domain == from_local_points("targets")
            domain == domain_union(source_domain, target_domain)
        IN  IF TreeConstructionFails(nsources, ntargets)
            THEN /\ bldLast' = BuilderResult("tree", "panic", "no points",
                                             bld.tree.some, args)
                 /\ bldAlive' = FALSE
                 /\ UNCHANGED bld
            ELSE \E source_tree \in BuilderTreesOf(nsources),
                    target_tree \in BuilderTreesOf(ntargets) :
                 /\ bld' = [bld EXCEPT
                              !.domain = Present(domain),
                              !.tree = Present(
                                  [source_tree |-> BuiltTree(source_tree, nsources,
                                                             n_crit, sparse, domain),
                                   target_tree |-> BuiltTree(target_tree, ntargets,
                                                             n_crit, sparse, domain),
                                   domain      |-> domain])]
                 /\ bldLast' = BuilderResult("tree", "ok", "", bld.tree.some, args)
                 /\ UNCHANGED bldAlive
    /\ UNCHANGED bldChecks
    /\ UNCHANGED notBuilder

\* parameters(expansion_order, kernel, eval_type, source_to_target): Err when
\* the tree is None; otherwise the fields are set, ncoeffs(expansion_order)
\* overflows for 0 (a panic with overflow checks), and the argument
\* self.source_domain.unwrap() of set_operator_data panics on None.
BuilderParameters ==
    /\ bldAlive
    /\ \E expansion_order \in 0..MaxBuilderOrder, eval_type \in EvalTypes :
        LET args == [NoArgs EXCEPT !.expansion_order = expansion_order]
            Result(outcome, why) ==
                BuilderResult("parameters", outcome, why, bld.tree.some, args)
            set  == [bld EXCEPT
                       !.expansion_order = Present(expansion_order),
                       !.ncoeffs = Present(ncoeffs(expansion_order)),
                       !.kernel = Present("kernel"),
                       !.eval_type = Present(eval_type)]
        IN  IF ~bld.tree.some
            THEN /\ bldLast' = Result("err", "Must build tree before specifying FMM parameters")
                 /\ bldAlive' = FALSE
                 /\ UNCHANGED bld
            ELSE IF expansion_order = 0 /\ bldChecks
            THEN /\ bldLast' = Result("panic", "subtract with overflow")
                 /\ bldAlive' = FALSE
                 /\ bld' = [bld EXCEPT !.expansion_order = Present(expansion_order)]
            ELSE IF ~set.source_domain.some
            THEN /\ bldLast' = Result("panic", "unwrap on None")
                 /\ bldAlive' = FALSE
                 /\ bld' = set
            ELSE /\ bldLast' = Result("ok", "")
                 /\ bld' = [set EXCEPT !.source_to_target = Present("source_to_target")]
                 /\ UNCHANGED bldAlive
    /\ UNCHANGED bldChecks
    /\ UNCHANGED notBuilder

\* build() (257-281): Err when tree, source_to_target or expansion_order is
\* None; otherwise tree, expansion_order, ncoeffs, kernel and
\* source_to_target are unwrapped into the NewKiFmm,
\* set_source_and_target_operator_data() is called, then
\* set_metadata(self.eval_type.unwrap()), which panics for a target key
\* that is not of the other tree, and Ok is returned.
BuilderBuild ==
    /\ bldAlive
    /\ LET Result(outcome, why, calls) ==
               [BuilderResult("build", outcome, why, bld.tree.some, NoArgs)
                   EXCEPT !.calls = calls]
       IN  IF ~bld.tree.some \/ ~bld.source_to_target.some
              \/ ~bld.expansion_order.some
           THEN bldLast' = Result("err", "Missing fields for constructing KiFmm", <<>>)
           ELSE IF ~bld.ncoeffs.some \/ ~bld.kernel.some
           THEN bldLast' = Result("panic", "unwrap on None", <<>>)
           ELSE IF ~bld.eval_type.some
           THEN bldLast' = Result("panic", "unwrap on None",
                                  <<"set_source_and_target_operator_data">>)
           ELSE IF set_metadata_panics(bld.tree.value)
           THEN bldLast' = Result("panic", "unwrap on None",
                                  <<"set_source_and_target_operator_data">>)
           ELSE bldLast' = Result("ok", "",
                                  <<"set_source_and_target_operator_data",
                                    "set_metadata">>)
    /\ bldAlive' = FALSE
    /\ UNCHANGED <<bld, bldChecks>>
    /\ UNCHANGED notBuilder

NextBuilder == BuilderTree \/ BuilderParameters \/ BuilderBuild

-----------------------------------------------------------------------------
(* Properties of the builder. *)

\* The parameters a finished chain of builder calls was given are invalid:
\* expansion_order < 2 or ncrit < 1.  (The builder takes no depth.)
InvalidConfig ==
    LET n_crit == bld.tree.value.source_tree.n_crit
    IN  \/ bld.expansion_order.value < 2
        \/ (n_crit.some /\ n_crit.value < 1)

\* C16: a chain of builder calls that was given a tree and parameters and has
\* ended (the builder is gone) ended with an error value, neither a panic nor
\* an FMM object, when expansion_order < 2 or ncrit < 1, and did not end with
\* an error value when the parameters were valid.
C16_InvalidConfigRejected ==
    (~bldAlive /\ bld.tree.some /\ bld.expansion_order.some) =>
        (bldLast.outcome = "err") <=> InvalidConfig

\* C17: after new and tree, parameters returns Ok and then build returns Ok;
\* parameters before tree returns Err; build before tree or before parameters
\* returns Err; no call panics on an unset field.
C17_BuilderProtocol ==
    /\ bldLast.call = "parameters" =>
          bldLast.outcome = (IF bldLast.had_tree THEN "ok" ELSE "err")
    /\ bldLast.call = "build" =>
          bldLast.outcome =
              (IF bldLast.had_tree /\ bld.source_to_target.some THEN "ok"
               ELSE "err")
    /\ ~(bldLast.outcome = "panic" /\ bldLast.why = "unwrap on None")

\* C29: for the SingleNodeFmmTree produced by tree(sources, targets, ..),
\* get_source_tree() returns the tree built from the source points and
\* get_target_tree() the tree built from the target points; both trees were
\* built over the same domain, the union of the source and target bounding
\* boxes, which get_domain() returns.
C29_FmmTreeGetters ==
    (bldLast.call = "tree" /\ bldLast.outcome = "ok") =>
        LET tree == bld.tree.value
            both == from_local_points("sources") \cup from_local_points("targets")
        IN  /\ get_source_tree(tree).npoints = bldLast.args.nsources
            /\ get_target_tree(tree).npoints = bldLast.args.ntargets
            /\ get_source_tree(tree).domain = Present(both)
            /\ get_target_tree(tree).domain = Present(both)
            /\ get_domain(tree) = both

-----------------------------------------------------------------------------
(***************************************************************************)
(* The timing dictionaries of FmmLoop (fmm/src/fmm.rs).  A TimeDict is a   *)
(* function from operator names to milliseconds; an Option<TimeDict> is    *)
(* Absent or Present(dict).  Every start.elapsed().as_millis() is some     *)
(* value of 0..MaxMillis.                                                  *)
(***************************************************************************)

Millis == 0..MaxMillis

RECURSIVE Accumulated(_)
\* The values of a counter that starts at 0 and has an elapsed time added n
\* times.
Accumulated(n) ==
    IF n <= 0 THEN {0}
    ELSE {a + e : a \in Accumulated(n - 1), e \in Millis}

\* TimeDict::default()
EmptyDict == <<>>

\* times.insert(name, ms)
insert(times, name, ms) ==
    [k \in DOMAIN times \cup {name} |-> IF k = name THEN ms ELSE times[k]]

\* A variant of extend that keeps only the entries of the second dictionary.
extend_second_only(t1, t2) == t2

\* t1.extend(t2)
extend(t1, t2) ==
    [k \in DOMAIN t1 \cup DOMAIN t2 |-> IF k \in DOMAIN t2 THEN t2[k] ELSE t1[k]]

\* Number of iterations of for level in 2..=depth, and of those with level > 2.
LevelsFromTwo(d) == IF d >= 2 THEN d - 1 ELSE 0

LevelsAboveTwo(d) == IF d >= 3 THEN d - 2 ELSE 0

\* The dictionaries upward_pass(true) can return.
upward_times ==
    {insert(insert(EmptyDict, "p2m", p2m_ms), "m2m", m2m_ms) :
        p2m_ms \in Millis, m2m_ms \in Millis}

\* The dictionaries the uniform and matrix downward_pass(true) can return.
downward_times_uniform(d) ==
    {insert(insert(insert(insert(EmptyDict, "l2l", l2l_time), "m2l", m2l_time),
                   "p2p", p2p_ms), "l2p", l2p_ms) :
        l2l_time \in Accumulated(LevelsAboveTwo(d)),
        m2l_time \in Accumulated(LevelsFromTwo(d)),
        p2p_ms \in Millis, l2p_ms \in Millis}

\* The dictionaries the adaptive downward_pass(true) can return.
downward_times_adaptive(d) ==
    {insert(insert(insert(insert(insert(insert(EmptyDict,
            "l2l", l2l_time), "m2l", m2l_time), "p2l", p2l_time),
            "m2p", m2p_ms), "p2p", p2p_ms), "l2p", l2p_ms) :
        l2l_time \in Accumulated(LevelsAboveTwo(d)),
        m2l_time \in Accumulated(LevelsFromTwo(d)),
        p2l_time \in Accumulated(LevelsFromTwo(d)),
        m2p_ms \in Millis, p2p_ms \in Millis, l2p_ms \in Millis}

downward_times(v, d) ==
    IF v = "adaptive" THEN downward_times_adaptive(d)
    ELSE downward_times_uniform(d)

IdleTimes ==
    /\ tmVariant = "uniform"
    /\ tmTime = FALSE
    /\ tmDepth = 0
    /\ tmPc = "done"
    /\ tmT1 = Absent
    /\ tmT2 = Absent
    /\ tmResult = Absent

\* Entry of run(time) on a tree of some depth.
InitTimes ==
    /\ tmVariant \in Variants
    /\ tmTime \in BOOLEAN
    /\ tmDepth \in 0..MaxTimedDepth
    /\ tmPc = "upward_pass"
    /\ tmT1 = Absent
    /\ tmT2 = Absent
    /\ tmResult = Absent

\* let t1 = self.upward_pass(time);
TimesUpwardPass ==
    /\ tmPc = "upward_pass"
    /\ IF tmTime THEN \E times \in upward_times : tmT1' = Present(times)
       ELSE tmT1' = Absent
    /\ tmPc' = "downward_pass"
    /\ UNCHANGED <<tmVariant, tmTime, tmDepth, tmT2, tmResult>>
    /\ UNCHANGED notTimes

\* let t2 = self.downward_pass(time);
TimesDownwardPass ==
    /\ tmPc = "downward_pass"
    /\ IF tmTime
       THEN \E times \in downward_times(tmVariant, tmDepth) : tmT2' = Present(times)
       ELSE tmT2' = Absent
    /\ tmPc' = "merge"
    /\ UNCHANGED <<tmVariant, tmTime, tmDepth, tmT1, tmResult>>
    /\ UNCHANGED notTimes

\* if let (Some(mut t1), Some(t2)) = (t1, t2) { t1.extend(t2); Some(t1) }
\* else { None }
TimesReturn ==
    /\ tmPc = "merge"
    /\ tmResult' = (IF tmT1.some /\ tmT2.some
                    THEN Present(extend(tmT1.value, tmT2.value))
                    ELSE Absent)
    /\ tmPc' = "done"
    /\ UNCHANGED <<tmVariant, tmTime, tmDepth, tmT1, tmT2>>
    /\ UNCHANGED notTimes

NextTimes == TimesUpwardPass \/ TimesDownwardPass \/ TimesReturn

\* The operator names of a variant.
OperatorNames(v) ==
    {"p2m", "m2m", "l2l", "m2l", "p2p", "l2p"}
        \cup (IF v = "adaptive" THEN {"p2l", "m2p"} ELSE {})

\* C18: run(false) returns None; run(true) returns Some(dictionary), the union
\* of the upward-pass and downward-pass dictionaries, with exactly one entry
\* per operator name of the variant, for every tree depth.
C18_TimingDictionary ==
    tmPc = "done" =>
        IF tmTime
        THEN /\ tmResult.some
             /\ DOMAIN tmResult.value = OperatorNames(tmVariant)
             /\ \A k \in DOMAIN tmT1.value : tmResult.value[k] = tmT1.value[k]
             /\ \A k \in DOMAIN tmT2.value : tmResult.value[k] = tmT2.value[k]
        ELSE ~tmResult.some

\* A timed adaptive run on a tree of depth < 2 has returned its dictionary of
\* eight entries, the l2l entry being 0 and the p2m entry that of upward_pass.
C18_Witness ==
    /\ tmPc = "done"
    /\ tmTime
    /\ tmVariant = "adaptive"
    /\ tmDepth < 2
    /\ tmResult.some
    /\ Cardinality(DOMAIN tmResult.value) = 8
    /\ tmResult.value["l2l"] = 0
    /\ tmResult.value["p2m"] = tmT1.value["p2m"]

-----------------------------------------------------------------------------
(* MultiNodeTree::uniform_tree (impl_multi_node.rs 52-128) on one process.
   A key is <<level, x, y, z>> with the coordinates of the box on the grid of
   its level.  The points lie on the grid of DEEPEST_LEVEL inside the domain,
   so that the floor of the scaled coordinate is an integer division. *)

\* constants::DEEPEST_LEVEL (16 in the code) and LEVEL_SIZE = 2^DEEPEST_LEVEL.
DEEPEST_LEVEL == MaxTreeDepth

LEVEL_SIZE == Pow2(DEEPEST_LEVEL)

\* The coordinates a point can have: the two positions at either end of
\* the domain along x, the extreme positions along y and z.
TreeCoordinates ==
    {<<x, y, z>> : x \in {0, 1, LEVEL_SIZE - 2, LEVEL_SIZE - 1} \cap 0..(LEVEL_SIZE - 1),
                   y \in {0, LEVEL_SIZE - 1}, z \in {0, LEVEL_SIZE - 1}}

\* The slices uniform_tree is called with, the empty one included.
TreeInputs == UNION {[1..n -> TreeCoordinates] : n \in 0..MaxTreePoints}

\* MortonKey::from_point(p, domain, depth): the box of the level that holds
\* the point, by the floor of the scaled coordinate.
from_point(p, d) ==
    LET side == Pow2(DEEPEST_LEVEL - d)
    IN  <<d, p[1] \div side, p[2] \div side, p[3] \div side>>

\* Lines 60-68: the encoded points, in input order.
EncodedPoints(input, d) ==
    [i \in 1..Len(input) |->
        [coordinate |-> input[i], key |-> from_point(input[i], d),
         global_idx |-> i - 1]]

\* Ord of Point: the order of the keys.
PointLess(a, b) == KeyLess(a.key, b.key)

\* hyksort on one process: the orders of the points that are sorted; points
\* with the same key come in any order.
hyksort(pts) ==
    LET n == Len(pts)
        perms == {f \in [1..n -> 1..n] : \A i, j \in 1..n : i # j => f[i] # f[j]}
    IN  {[i \in 1..n |-> pts[f[i]]] : f \in
            {g \in perms : \A i, j \in 1..n : i < j => ~PointLess(pts[g[j]], pts[g[i]])}}

\* points.iter().min().unwrap().key and .max(), of a non-empty Vec.
MinKey(keys) == CHOOSE k \in keys : \A o \in keys : ~KeyLess(o, k)

MaxKey(keys) == CHOOSE k \in keys : \A o \in keys : ~KeyLess(k, o)

\* Line 78.
diameter(d) == Pow2(DEEPEST_LEVEL - d)

\* Lines 81-88: the keys of all anchors (i, j, k) of 0..LEVEL_SIZE stepped by
\* the diameter, i outermost.
AllLeaves(d) ==
    LET n == LEVEL_SIZE \div diameter(d)
    IN  [m \in 1..(n * n * n) |->
            <<d, (m - 1) \div (n * n), ((m - 1) \div n) % n, (m - 1) % n>>]

\* Line 89: .filter(|k| (k >= &min) && (k <= &max)).
InRange_dropping_min(k, min, max) == KeyLess(min, k) /\ ~KeyLess(max, k)

InRange(k, min, max) == ~KeyLess(k, min) /\ ~KeyLess(max, k)

\* Lines 80-92.
FilteredLeaves(d, min, max) ==
    LET Keep(k) == InRange(k, min, max)
    IN  SelectSeq(AllLeaves(d), Keep)

\* The box of nodes that holds the key: the key itself or its nearest
\* ancestor, NoNode when there is none.
NoNode == <<>>

NodeOf(k, nodes) ==
    LET holding == {a \in ancestors(k) : a \in nodes}
    IN  IF holding = {} THEN NoNode
        ELSE CHOOSE a \in holding : \A o \in holding : o[1] <= a[1]

\* assign_points_to_nodes(points, nodes): point (by its position in points)
\* -> the node that holds it.
assign_points_to_nodes(pts, nodes) ==
    LET held_by == [i \in 1..Len(pts) |-> NodeOf(pts[i].key, Range(nodes))]
    IN  [i \in {j \in 1..Len(pts) : held_by[j] # NoNode} |-> held_by[i]]

\* assign_nodes_to_points(nodes, points): node -> the points it holds, with
\* an entry for the nodes that hold a point only.
assign_nodes_to_points(nodes, pts) ==
    LET held_by == [i \in 1..Len(pts) |-> NodeOf(pts[i].key, Range(nodes))]
    IN  [k \in {held_by[i] : i \in 1..Len(pts)} \ {NoNode} |->
            {i \in 1..Len(pts) : held_by[i] = k}]

\* HashMap::keys().cloned().collect(): the keys once each, in any order.
KeysOf(map) ==
    LET n == Cardinality(DOMAIN map)
    IN  {s \in [1..n -> DOMAIN map] : \A i, j \in 1..n : i # j => s[i] # s[j]}

NoTree == [some |-> FALSE, err |-> "none"]

IdleTree ==
    /\ trInput = <<>>
    /\ trDepth = 0
    /\ trPc = "idle"
    /\ trPoints = <<>>
    /\ trLeaves = <<>>
    /\ trP2L = <<>>
    /\ trL2P = <<>>
    /\ trTree = NoTree

InitTree ==
    /\ trInput \in TreeInputs
    /\ trDepth \in 0..MaxTreeDepth
    /\ trPc = "encode"
    /\ trPoints = <<>>
    /\ trLeaves = <<>>
    /\ trP2L = <<>>
    /\ trL2P = <<>>
    /\ trTree = NoTree

\* Lines 60-72: encode the points at the depth and sort them.
TreeEncode ==
    /\ trPc = "encode"
    /\ trPoints' \in hyksort(EncodedPoints(trInput, trDepth))
    /\ trPc' = "leaves"
    /\ UNCHANGED <<trInput, trDepth, trLeaves, trP2L, trL2P, trTree>>
    /\ UNCHANGED notTree

\* Lines 75-92: min and max of the points (unwrap of None when there is no
\* point) and the leaves between them.
TreeLeaves ==
    /\ trPc = "leaves"
    /\ IF trPoints = <<>>
       THEN /\ trPc' = "panic"
            /\ UNCHANGED trLeaves
       ELSE LET keys == {trPoints[i].key : i \in 1..Len(trPoints)}
            IN  /\ trLeaves' = FilteredLeaves(trDepth, MinKey(keys), MaxKey(keys))
                /\ trPc' = "assign"
    /\ UNCHANGED <<trInput, trDepth, trPoints, trP2L, trL2P, trTree>>
    /\ UNCHANGED notTree

\* Lines 95-102: the two maps, then the leaves are the keys of
\* leaves_to_points.
TreeAssign ==
    /\ trPc = "assign"
    /\ trP2L' = assign_points_to_nodes(trPoints, trLeaves)
    /\ trL2P' = assign_nodes_to_points(trLeaves, trPoints)
    /\ trLeaves' \in KeysOf(trL2P')
    /\ trPc' = "return"
    /\ UNCHANGED <<trInput, trDepth, trPoints, trTree>>
    /\ UNCHANGED notTree

\* Lines 104-127: the sets, the range (unwrap of None when there is no leaf)
\* and the struct.
TreeReturn ==
    /\ trPc = "return"
    /\ IF trLeaves = <<>>
       THEN /\ trPc' = "panic"
            /\ UNCHANGED trTree
       ELSE /\ trTree' =
                [some |-> TRUE, err |-> "none",
                 tree |->
                    [adaptive |-> FALSE,
                     points |-> trPoints,
                     keys_set |-> UNION {ancestors(k) : k \in Range(trLeaves)},
                     leaves |-> trLeaves,
                     leaves_set |-> Range(trLeaves),
                     points_to_leaves |-> trP2L,
                     leaves_to_points |-> trL2P,
                     range |-> <<0, MortonIndex(MinKey(Range(trLeaves))),
                                 MortonIndex(MaxKey(Range(trLeaves)))>>]]
            /\ trPc' = "done"
    /\ UNCHANGED <<trInput, trDepth, trPoints, trLeaves, trP2L, trL2P>>
    /\ UNCHANGED notTree

NextTree == TreeEncode \/ TreeLeaves \/ TreeAssign \/ TreeReturn

\* The call has ended, by a return or by a panic.
TreeEnded == trPc \in {"done", "panic"}

\* C19: a uniform tree built at depth d from a non-empty point set: every
\* point's key is one of the leaves, every leaf holds at least one point,
\* points_to_leaves maps each point to the leaf equal to its own depth-d key,
\* and no leaf occurs twice.
C19_UniformTreeInvariants ==
    (trPc = "done" /\ trInput # <<>>) =>
        LET t == trTree.tree
            n == Len(t.points)
        IN  /\ trTree.some
            /\ n = Len(trInput)
            /\ \A i \in 1..n : t.points[i].key \in Range(t.leaves)
            /\ \A l \in Range(t.leaves) :
                  \E i \in 1..n : from_point(t.points[i].coordinate, trDepth) = l
            /\ \A i \in 1..n :
                  /\ i \in DOMAIN t.points_to_leaves
                  /\ t.points_to_leaves[i] = from_point(t.points[i].coordinate, trDepth)
                  /\ t.points_to_leaves[i] \in Range(t.leaves)
            /\ \A i, j \in 1..Len(t.leaves) : i # j => t.leaves[i] # t.leaves[j]

\* A tree of two leaves was returned, and a box between them, enumerated and
\* kept by the filter, was dropped because it holds no point.
C19_Witness ==
    /\ trPc = "done"
    /\ trDepth >= 1
    /\ Len(trTree.tree.leaves) >= 2
    /\ \E k \in KeysAt(trDepth) :
          /\ k \notin trTree.tree.leaves_set
          /\ InRange(k, MinKey(trTree.tree.leaves_set), MaxKey(trTree.tree.leaves_set))

\* C20: building a tree from an empty point set ends with a NoPoints error
\* value: no panic, no tree.
C20_EmptyPointSetFails ==
    (trInput = <<>> /\ TreeEnded) =>
        /\ trPc # "panic"
        /\ ~trTree.some
        /\ trTree.err = "NoPoints"

-----------------------------------------------------------------------------
(* How a pair of leaves of a uniform tree is accounted for: the source s in
   the near field of the target t (get_near_field, used by P2P), or the
   ancestors of s and t of one level in each other's interaction list
   (get_interaction_list, used by M2L). *)

\* The ancestor of a key at a level not below its own.
AncestorAt(k, l) ==
    LET s == Pow2(k[1] - l)
    IN  <<l, k[2] \div s, k[3] \div s, k[4] \div s>>

\* Number of places of a Vec that hold e.
Occurrences(s, e) == Cardinality({i \in 1..Len(s) : s[i] = e})

\* Some element is held by two places of the Vec.
HasRepetition(s) == \E i, j \in 1..Len(s) : i # j /\ s[i] = s[j]

\* The sources looked at: the leaves along one edge of the domain.
CoverSources(d) == {k \in KeysAt(d) : k[3] = 0 /\ k[4] = 0}

IdleCover ==
    /\ cvDepth = 0
    /\ cvSrc = NoKey
    /\ cvTgt = NoKey
    /\ cvLevel = 0
    /\ cvNear = 0
    /\ cvRepeats = FALSE
    /\ cvFar = {}

\* A uniform tree of depth d >= 2 with all boxes present, a source leaf and a
\* target leaf; nothing computed yet.
InitCover ==
    /\ cvDepth \in 2..MaxCoverDepth
    /\ cvSrc \in CoverSources(cvDepth)
    /\ cvTgt \in KeysAt(cvDepth)
    /\ cvLevel = 1
    /\ cvNear = 0
    /\ cvRepeats = FALSE
    /\ cvFar = {}

\* U(t) = get_near_field(t) is computed and searched for s.
CoverNearField ==
    /\ cvLevel = 1
    /\ LET u == get_near_field(cvTgt)
       IN  /\ cvNear' = Occurrences(u, cvSrc)
           /\ cvRepeats' = HasRepetition(u)
    /\ cvLevel' = 2
    /\ UNCHANGED <<cvDepth, cvSrc, cvTgt, cvFar>>
    /\ UNCHANGED notCover

\* V of the target's ancestor of the next level is computed and searched for
\* the source's ancestor of that level.
CoverInteractionList ==
    /\ cvLevel >= 2
    /\ cvLevel <= cvDepth
    /\ LET v == get_interaction_list(AncestorAt(cvTgt, cvLevel))
       IN  cvFar' = IF v.some /\ Contains(v.keys, AncestorAt(cvSrc, cvLevel))
                    THEN cvFar \cup {cvLevel} ELSE cvFar
    /\ cvLevel' = cvLevel + 1
    /\ UNCHANGED <<cvDepth, cvSrc, cvTgt, cvNear, cvRepeats>>
    /\ UNCHANGED notCover

NextCover == CoverNearField \/ CoverInteractionList

\* Every level of the pair has been looked at.
Covered == cvLevel = cvDepth + 1

\* C22: in a uniform tree of depth d >= 2 with all boxes present every ordered
\* pair (s, t) of leaves is accounted for exactly once: s occurs exactly once
\* in U(t) (s = t included, and no box is listed twice in U(t)), or there is
\* exactly one level L of 2..d at which the ancestor of s is in V of the
\* ancestor of t; never both, never neither.
C22_PairsCoveredOnce ==
    Covered =>
        /\ ~cvRepeats
        /\ cvNear <= 1
        /\ Cardinality(cvFar) <= 1
        /\ cvNear + Cardinality(cvFar) = 1

-----------------------------------------------------------------------------
(* The locks of one parallel operator invocation (field_translation.rs):
   par_iter().for_each runs one task per box, in any interleaving.  A task
   is a sequence of rounds; in a round it locks the mutexes of some slots
   one after another (Mutex::lock waits for the holder) and drops all its
   guards at the end of the scope.  The lists get_w_list, get_x_list,
   get_u_list and get_v_list of a box are taken to be any list of boxes. *)

LockOperators == {"m2m", "l2l", "m2p", "p2l", "p2p", "l2p", "m2l"}

\* The operators whose task loops over a list of source boxes.
ListOperators == {"m2p", "p2l", "p2p", "m2l"}

\* The boxes a task can be run for: three boxes of level 2, two of them
\* siblings.
LockCandidates == {<<2, 0, 0, 0>>, <<2, 1, 0, 0>>, <<2, 2, 0, 0>>}

\* The boxes the lists are made of.
LockSources == {<<2, 0, 2, 0>>, <<2, 1, 2, 0>>}

LockLists == UNION {[1..n -> LockSources] : n \in 0..MaxLockList}

\* A slot with a mutex: self.multipoles[key], self.locals[key],
\* self.potentials[key], or the bucket of a transfer vector.
Slot(kind, k) == [kind |-> kind, key |-> k, tv |-> 0]

Bucket(tv) == [kind |-> "bucket", key |-> NoKey, tv |-> tv]

\* m2m with the two locks taken in the other order.
M2MRound_parent_first(source) ==
    <<Slot("multipole", parent(source)), Slot("multipole", source)>>

\* m2m, lines 129-137: source_multipole_arc.lock(), then
\* target_multipole_arc.lock(), the multipole of the parent.
M2MRound(source) ==
    <<Slot("multipole", source), Slot("multipole", parent(source))>>

\* l2l, lines 157-163: source_local_arc.lock(), the local of the parent, then
\* target_local_arc.lock().
L2LRound(target) ==
    <<Slot("local", parent(target)), Slot("local", target)>>

\* m2p, lines 187-214, one iteration of the loop over the w_list.
M2PRound(target, source) ==
    <<Slot("multipole", source), Slot("potential", target)>>

\* l2p, lines 250-264.
L2PRound(leaf) == <<Slot("local", leaf), Slot("potential", leaf)>>

\* p2l, line 312, one iteration of the loop over the x_list.
P2LRound(leaf) == <<Slot("local", leaf)>>

\* p2p, lines 373-376, one iteration of the loop over the u_list.
P2PRound(target) == <<Slot("potential", target)>>

\* SVD m2l, lines 411-413, one iteration of the loop over the v_list.
M2LFillRound(target, source) == <<Bucket(find_transfer_vector(target, source))>>

\* The rounds of the task of a box.
LockProgram(op, box, list) ==
    CASE op = "m2m" -> <<M2MRound(box)>>
      [] op = "l2l" -> <<L2LRound(box)>>
      [] op = "l2p" -> <<L2PRound(box)>>
      [] op = "m2p" -> [i \in 1..Len(list) |-> M2PRound(box, list[i])]
      [] op = "p2l" -> [i \in 1..Len(list) |-> P2LRound(box)]
      [] op = "p2p" -> [i \in 1..Len(list) |-> P2PRound(box)]
      [] op = "m2l" -> [i \in 1..Len(list) |-> M2LFillRound(box, list[i])]

\* The boxes of a set as a Vec, in Morton order.
LockTargets(S) == SortKeys(S)

\* SVD m2l, lines 429-494: the task of one bucket locks the multipole of
\* every source of its pairs (449-462), then the local of every target
\* (483-493), one at a time, in the order of the bucket's Vec.
M2LApplyProgram(pairs) ==
    [i \in 1..Len(pairs) |-> <<Slot("multipole", pairs[i][1])>>] \o
    [i \in 1..Len(pairs) |-> <<Slot("local", pairs[i][2])>>]

\* Lines 429-431: transfer_vector_to_m2l_rw_lock.par_iter() runs one task per
\* bucket of the map; a task is named by the transfer vector of its bucket.
\* The programs of the non-empty buckets; the task of an empty bucket locks
\* nothing.
M2LApplyPrograms(buckets) ==
    [tv \in DOMAIN buckets |-> M2LApplyProgram(buckets[tv])]

\* No guard held, none being dropped.
NoGuard == [n |-> 0, dropping |-> FALSE]

IdleLocks ==
    /\ lkOp = "none"
    /\ lkTargets = <<>>
    /\ lkLists = <<>>
    /\ lkPhase = "idle"
    /\ lkProg = <<>>
    /\ lkRound = <<>>
    /\ lkHold = <<>>
    /\ lkBucket = <<>>

\* The operator is invoked on a level or a set of leaves: one task per box,
\* no lock held; SVD m2l has made an empty bucket per transfer vector of the
\* library (394-399).  lkBucket holds the buckets that are not empty.
InitLocks ==
    /\ lkOp \in LockOperators
    /\ \E S \in SUBSET LockCandidates :
          /\ Cardinality(S) \in 1..MaxLockTasks
          /\ lkTargets = LockTargets(S)
    /\ lkLists \in [1..Len(lkTargets) ->
                       IF lkOp \in ListOperators THEN LockLists ELSE {<<>>}]
    /\ lkPhase = "first"
    /\ lkProg = [t \in 1..Len(lkTargets) |->
                    LockProgram(lkOp, lkTargets[t], lkLists[t])]
    /\ lkRound = [t \in 1..Len(lkTargets) |-> 1]
    /\ lkHold = [t \in 1..Len(lkTargets) |-> NoGuard]
    /\ lkBucket = <<>>

\* The tasks of the running par_iter: the indices of the targets, then the
\* transfer vectors of the buckets.
LockTasks ==
    IF lkPhase = "second" THEN DOMAIN transfer_vector_to_m2l ELSE DOMAIN lkProg

\* The task has run its closure to the end.
TaskDone(t) == t \notin DOMAIN lkProg \/ lkRound[t] > Len(lkProg[t])

\* The slots whose guards the task holds: the first lkHold[t].n of its round.
HeldBy(t) ==
    IF TaskDone(t) THEN {}
    ELSE {lkProg[t][lkRound[t]][i] : i \in 1..lkHold[t].n}

\* Mutex::lock returns once no task holds the mutex.
SlotFree(slot) == \A t \in LockTasks : slot \notin HeldBy(t)

\* The task is about to lock the next slot of its round.
Acquiring(t) ==
    /\ ~TaskDone(t)
    /\ ~lkHold[t].dropping
    /\ lkHold[t].n < Len(lkProg[t][lkRound[t]])

\* The slot the task locks next; it holds every earlier one of the round.
Wanted(t) == lkProg[t][lkRound[t]][lkHold[t].n + 1]

\* m2l_lock.push(pair) on the bucket of a transfer vector of the library.
Pushed(buckets, tv, pair) ==
    [h \in DOMAIN buckets \cup {tv} |->
        IF h = tv
        THEN (IF tv \in DOMAIN buckets THEN Append(buckets[tv], pair)
              ELSE <<pair>>)
        ELSE buckets[h]]

\* Mutex::lock of the next slot returns.
CanAcquire(t) == Acquiring(t) /\ SlotFree(Wanted(t))

\* The task is at the end of the scope of its round and holds a guard.
CanDrop(t) ==
    /\ ~TaskDone(t)
    /\ lkHold[t].n > 0
    /\ lkHold[t].dropping \/ lkHold[t].n = Len(lkProg[t][lkRound[t]])

\* arc.lock().unwrap() of the next slot of the round; under the guard of a
\* bucket (411-413) the pair (source, target) is pushed.
LockAcquire ==
    /\ \E t \in LockTasks :
          /\ CanAcquire(t)
          /\ lkHold' = [lkHold EXCEPT ![t].n = lkHold[t].n + 1]
          /\ lkBucket' =
                IF Wanted(t).kind = "bucket"
                THEN Pushed(lkBucket, Wanted(t).tv,
                            <<lkLists[t][lkRound[t]], lkTargets[t]>>)
                ELSE lkBucket
    /\ UNCHANGED <<lkOp, lkTargets, lkLists, lkPhase, lkProg, lkRound>>
    /\ UNCHANGED notLocks

\* The scope ends: the guards of the round are dropped one after another,
\* the last taken first; after the last drop the task is in its next round.
LockDrop ==
    /\ \E t \in LockTasks :
          /\ CanDrop(t)
          /\ IF lkHold[t].n = 1
             THEN /\ lkHold' = [lkHold EXCEPT ![t] = NoGuard]
                  /\ lkRound' = [lkRound EXCEPT ![t] = lkRound[t] + 1]
             ELSE /\ lkHold' = [lkHold EXCEPT ![t] =
                                   [n |-> lkHold[t].n - 1, dropping |-> TRUE]]
                  /\ UNCHANGED lkRound
    /\ UNCHANGED <<lkOp, lkTargets, lkLists, lkPhase, lkProg, lkBucket>>
    /\ UNCHANGED notLocks

\* SVD m2l: the first par_iter has joined, the buckets are copied (418-427)
\* and the second par_iter runs one task per bucket, each over the pairs of
\* its bucket in the order they were pushed.
FirstLoopJoined ==
    /\ lkOp = "m2l"
    /\ lkPhase = "first"
    /\ \A t \in LockTasks : TaskDone(t)

LockSecondLoop ==
    /\ FirstLoopJoined
    /\ lkPhase' = "second"
    /\ lkProg' = M2LApplyPrograms(lkBucket)
    /\ lkRound' = [tv \in DOMAIN lkBucket |-> 1]
    /\ lkHold' = [tv \in DOMAIN lkBucket |-> NoGuard]
    /\ UNCHANGED <<lkOp, lkTargets, lkLists, lkBucket>>
    /\ UNCHANGED notLocks

NextLocks == LockAcquire \/ LockDrop \/ LockSecondLoop

\* Every par_iter of the invocation has joined.
LocksReturned ==
    /\ lkPhase = (IF lkOp = "m2l" THEN "second" ELSE "first")
    /\ \A t \in LockTasks : TaskDone(t)

\* An order of the slots: multipoles from the deepest level up, then locals
\* from the root down, then potentials; buckets apart.
LockRank(slot) ==
    CASE slot.kind = "multipole" -> 100 - level(slot.key)
      [] slot.kind = "local"     -> 200 + level(slot.key)
      [] slot.kind = "potential" -> 300
      [] slot.kind = "bucket"    -> 0

\* C24: within one parallel operator invocation a thread that holds a slot's
\* lock while acquiring another does so in an order that admits no cycle
\* (M2M: the source's multipole, then its parent's; L2L: the parent's local,
\* then the child's; M2P: a source multipole, then the target's potential),
\* so for every interleaving the invocation of M2M, L2L, M2P, P2L, P2P, L2P
\* and SVD M2L is never stuck: as long as it has not returned some task can
\* take a step, and when it has returned no lock is held.
C24_NoDeadlock ==
    LET running == {t \in LockTasks : ~TaskDone(t)}
    IN  /\ \A t \in running :
              Acquiring(t) =>
                  \A held \in HeldBy(t) : LockRank(held) < LockRank(Wanted(t))
        /\ \A t, u \in running : t # u => HeldBy(t) \cap HeldBy(u) = {}
        /\ ~LocksReturned =>
              \/ \E t \in running : CanAcquire(t) \/ CanDrop(t)
              \/ FirstLoopJoined
        /\ LocksReturned => \A t \in LockTasks : HeldBy(t) = {}

\* m2m on two siblings: one task holds its own multipole and the parent's,
\* the other holds its own and waits for the parent's.
C24_Witness ==
    /\ lkOp = "m2m"
    /\ Len(lkTargets) >= 2
    /\ \E t, u \in LockTasks :
          /\ t # u
          /\ parent(lkTargets[t]) = parent(lkTargets[u])
          /\ lkHold[t] = [n |-> 2, dropping |-> FALSE]
          /\ lkHold[u] = [n |-> 1, dropping |-> FALSE]
          /\ ~SlotFree(Wanted(u))

-----------------------------------------------------------------------------
(* complete_blocktree (impl_multi_node.rs 243-302) and
   transfer_points_to_blocktree (305-343), called by every rank of the
   communicator.  A standard-mode send either returns at once (the message
   is buffered) or blocks until the matching receive is posted; both are
   modelled.  Messages between two ranks are delivered in the order sent.
   Keys are integers in Morton order. *)

MpiFunctions == {"complete_blocktree", "transfer_points_to_blocktree"}

Ranks(size) == 0..(size - 1)

\* The least key of the blocktree (or of the seeds) of a rank: the ranks hold
\* ascending parts of the Morton curve.
BlockMin(r) == 10 * (r + 1)

\* A point of a rank; the coordinate tells the points of one key apart.
RankPoint(r, i, below) ==
    [coordinate |-> <<r, i>>,
     key |-> IF below THEN BlockMin(r) - 1 ELSE BlockMin(r),
     global_idx |-> i - 1]

\* The sorted points a rank can hold: none, or MaxRankPoints of them, the
\* first b below the least key of its blocktree.
RankPoints(r) ==
    {[i \in 1..n |-> RankPoint(r, i, i <= b)] :
        n \in {0, MaxRankPoints}, b \in 0..MaxRankPoints}

\* if rank > 0 { rank - 1 } else { size - 1 }
previous_rank(rank, size) == IF rank > 0 THEN rank - 1 ELSE size - 1

\* if rank + 1 < size { rank + 1 } else { 0 }
next_rank(rank, size) == IF rank + 1 < size THEN rank + 1 ELSE 0

\* Line 321: points.iter().filter(|&p| p.key < *min).cloned().collect()
PointsBelow(points, min) ==
    LET Keep(p) == p.key < min IN SelectSeq(points, Keep)

\* Line 339: points.iter().filter(|&p| p.key >= *min).cloned().collect()
PointsKept(points, min) ==
    LET Keep(p) == p.key >= min IN SelectSeq(points, Keep)

\* The communication steps of a rank, in program order.
SendStep(kind, peer) == [op |-> "send", kind |-> kind, peer |-> peer]

ReceiveStep(kind, peer) == [op |-> "receive", kind |-> kind, peer |-> peer]

\* A variant of the steps without the guards on the rank: every rank sends
\* to its previous rank and receives from its next rank, around the ring.
MpiSteps_around_the_ring(fn, rank, size) ==
    IF fn = "complete_blocktree"
    THEN <<SendStep("key", previous_rank(rank, size)),
           ReceiveStep("key", next_rank(rank, size))>>
    ELSE <<SendStep("size", previous_rank(rank, size)),
           SendStep("points", previous_rank(rank, size)),
           ReceiveStep("size", next_rank(rank, size)),
           ReceiveStep("points", next_rank(rank, size))>>

\* complete_blocktree 272-282: if rank > 0 send min to the previous rank; if
\* rank < size - 1 receive the boundary from the next rank.
\* transfer_points_to_blocktree 320-336: if rank > 0 send msg_size and msg to
\* the previous rank; if rank < size - 1 receive bufsize and the buffer from
\* the next rank.
MpiSteps(fn, rank, size) ==
    IF fn = "complete_blocktree"
    THEN (IF rank > 0
          THEN <<SendStep("key", previous_rank(rank, size))>> ELSE <<>>) \o
         (IF rank < size - 1
          THEN <<ReceiveStep("key", next_rank(rank, size))>> ELSE <<>>)
    ELSE (IF rank > 0
          THEN <<SendStep("size", previous_rank(rank, size)),
                 SendStep("points", previous_rank(rank, size))>> ELSE <<>>) \o
         (IF rank < size - 1
          THEN <<ReceiveStep("size", next_rank(rank, size)),
                 ReceiveStep("points", next_rank(rank, size))>> ELSE <<>>)

\* What a send of a kind carries.
Message(kind, from, to, payload) ==
    [kind |-> kind, from |-> from, to |-> to, payload |-> payload]

\* Lines 273-274, 323-325: the payload of the send of a rank.
Payload(fn, kind, points, min) ==
    CASE kind = "key"    -> <<min>>
      [] kind = "size"   -> <<Len(PointsBelow(points, min))>>
      [] kind = "points" -> PointsBelow(points, min)

\* Line 341: received_points.sort(), a stable sort by the order of Point, the
\* order of the keys: points of equal key keep the order they had.
RECURSIVE SortPoints(_)
SortPoints(points) ==
    IF points = <<>> THEN <<>>
    ELSE LET sorted == SortPoints(SubSeq(points, 1, Len(points) - 1))
             last   == points[Len(points)]
             before == Cardinality({i \in 1..Len(sorted) :
                                       sorted[i].key <= last.key})
         IN  SubSeq(sorted, 1, before) \o <<last>>
                \o SubSeq(sorted, before + 1, Len(sorted))

NoBuffer == [bufsize |-> 0, buffer |-> <<>>, boundary |-> <<>>]

IdleMpi ==
    /\ mpFn = "none"
    /\ mpSize = 0
    /\ mpBlocking = FALSE
    /\ mpPoints = <<>>
    /\ mpPc = <<>>
    /\ mpChan = <<>>
    /\ mpBuf = <<>>
    /\ mpOut = <<>>
    /\ mpPosted = <<>>

\* Every rank of a communicator of any size calls the function; a send
\* blocks or not.
InitMpi ==
    /\ mpFn \in MpiFunctions
    /\ mpSize \in 1..MaxRanks
    /\ mpBlocking \in BOOLEAN
    /\ mpPoints \in [Ranks(mpSize) ->
          IF mpFn = "complete_blocktree" THEN {<<>>}
          ELSE UNION {RankPoints(r) : r \in Ranks(mpSize)}]
    /\ \A r \in Ranks(mpSize) : mpPoints[r] \in RankPoints(r)
    /\ mpPc = [r \in Ranks(mpSize) |-> 1]
    /\ mpChan = [r \in Ranks(mpSize) |-> <<>>]
    /\ mpBuf = [r \in Ranks(mpSize) |-> NoBuffer]
    /\ mpOut = [r \in Ranks(mpSize) |-> [returned |-> FALSE, points |-> <<>>]]
    /\ mpPosted = [r \in Ranks(mpSize) |-> 0]

MpiProgram(r) == MpiSteps(mpFn, r, mpSize)

\* The rank is at a communication step.
AtStep(r) == mpPc[r] <= Len(MpiProgram(r))

\* The rank waits in a receive from the peer.
ReceivePosted(r, peer) ==
    /\ AtStep(r)
    /\ MpiProgram(r)[mpPc[r]].op = "receive"
    /\ MpiProgram(r)[mpPc[r]].peer = peer

\* process_at_rank(previous_rank).send(..): the message joins those in flight
\* to the peer; a blocking send returns once the peer waits in a receive
\* from this rank.  mpChan[r] holds the messages sent by rank r, which all
\* go to one peer.
MpiSend ==
    /\ \E r \in Ranks(mpSize) :
          /\ AtStep(r)
          /\ MpiProgram(r)[mpPc[r]].op = "send"
          /\ LET step == MpiProgram(r)[mpPc[r]]
             IN  /\ mpBlocking => ReceivePosted(step.peer, r)
                 /\ mpChan' = [mpChan EXCEPT ![r] =
                       Append(@, Message(step.kind, r, step.peer,
                                 Payload(mpFn, step.kind, mpPoints[r], BlockMin(r))))]
          /\ mpPc' = [mpPc EXCEPT ![r] = mpPc[r] + 1]
    /\ UNCHANGED <<mpFn, mpSize, mpBlocking, mpPoints, mpBuf, mpOut, mpPosted>>
    /\ UNCHANGED notMpi

\* process_at_rank(next_rank).receive_into(..): takes the oldest message in
\* flight from the peer.
MpiReceive ==
    /\ \E r \in Ranks(mpSize) :
          /\ AtStep(r)
          /\ MpiProgram(r)[mpPc[r]].op = "receive"
          /\ LET step == MpiProgram(r)[mpPc[r]]
                 from == step.peer
             IN  /\ mpChan[from] # <<>>
                 /\ Head(mpChan[from]).to = r
                 /\ LET msg == Head(mpChan[from])
                    IN  mpBuf' = [mpBuf EXCEPT ![r] =
                           CASE step.kind = "key" -> [@ EXCEPT !.boundary = msg.payload]
                             [] step.kind = "size" -> [@ EXCEPT !.bufsize = msg.payload[1]]
                             [] step.kind = "points" -> [@ EXCEPT !.buffer = msg.payload]]
                 /\ mpChan' = [mpChan EXCEPT ![from] = Tail(@)]
          /\ mpPc' = [mpPc EXCEPT ![r] = mpPc[r] + 1]
          /\ mpPosted' = [mpPosted EXCEPT ![r] = mpPosted[r] + 1]
    /\ UNCHANGED <<mpFn, mpSize, mpBlocking, mpPoints, mpOut>>
    /\ UNCHANGED notMpi

\* The rest of the function.  transfer_points_to_blocktree 335-342: the
\* buffer is appended to received_points, received_points is then assigned
\* the local points not below min, sorted and returned.
MpiReturn ==
    /\ \E r \in Ranks(mpSize) :
          /\ mpPc[r] = Len(MpiProgram(r)) + 1
          /\ mpPc' = [mpPc EXCEPT ![r] = mpPc[r] + 1]
          /\ mpOut' = [mpOut EXCEPT ![r] =
                [returned |-> TRUE,
                 points |-> IF mpFn = "transfer_points_to_blocktree"
                            THEN SortPoints(PointsKept(mpPoints[r], BlockMin(r)))
                            ELSE <<>>]]
    /\ UNCHANGED <<mpFn, mpSize, mpBlocking, mpPoints, mpChan, mpBuf, mpPosted>>
    /\ UNCHANGED notMpi

NextMpi == MpiSend \/ MpiReceive \/ MpiReturn

\* Every rank has returned.
MpiAllReturned == mpSize > 0 /\ \A r \in Ranks(mpSize) : mpOut[r].returned

RECURSIVE AllPoints(_, _)
\* The points of the ranks r..size-1 of a function rank -> Vec of points.
AllPoints(f, r) ==
    IF r >= mpSize THEN {} ELSE Range(f[r]) \cup AllPoints(f, r + 1)

RECURSIVE CountPoints(_, _)
CountPoints(f, r) ==
    IF r >= mpSize THEN 0 ELSE Len(f[r]) + CountPoints(f, r + 1)

\* C25: transfer_points_to_blocktree loses and duplicates no point: over all
\* ranks the returned points are the input points; each rank > 0 gives up
\* exactly its points whose key is below the least key of its blocktree, and
\* each rank < size - 1 returns its kept points together with the points it
\* received from rank + 1, sorted.
C25_PointsConserved ==
    (mpFn = "transfer_points_to_blocktree" /\ MpiAllReturned) =>
        /\ AllPoints([r \in Ranks(mpSize) |-> mpOut[r].points], 0)
              = AllPoints(mpPoints, 0)
        /\ CountPoints([r \in Ranks(mpSize) |-> mpOut[r].points], 0)
              = CountPoints(mpPoints, 0)
        /\ \A r \in Ranks(mpSize) :
              LET given == IF r > 0 THEN PointsBelow(mpPoints[r], BlockMin(r))
                           ELSE <<>>
                  got   == IF r < mpSize - 1
                           THEN PointsBelow(mpPoints[r + 1], BlockMin(r + 1))
                           ELSE <<>>
                  kept  == {p \in Range(mpPoints[r]) : p \notin Range(given)}
                  out   == mpOut[r].points
              IN  /\ Range(out) = kept \cup Range(got)
                  /\ Len(out) = Cardinality(kept) + Len(got)
                  /\ \A i \in 1..(Len(out) - 1) : out[i].key <= out[i + 1].key

\* The messages a rank has sent so far, by its program.
SentBy(r) ==
    Cardinality({i \in 1..Len(MpiProgram(r)) :
                    i < mpPc[r] /\ MpiProgram(r)[i].op = "send"})

\* C26: for every communicator size, when all ranks call complete_blocktree
\* (or transfer_points_to_blocktree) every rank terminates even if a send
\* blocks until the matching receive is posted: a message of rank r > 0 goes
\* to rank r - 1 and is matched by one receive rank r - 1 posts for rank r;
\* no rank waits for a message never sent; no message is left unreceived.
C26_RanksTerminate ==
    /\ ~MpiAllReturned /\ mpSize > 0 => ENABLED NextMpi
    /\ \A r \in DOMAIN mpChan : \A i \in 1..Len(mpChan[r]) :
          /\ r > 0
          /\ mpChan[r][i].from = r
          /\ mpChan[r][i].to = r - 1
    /\ \A r \in DOMAIN mpChan :
          r > 0 => SentBy(r) = mpPosted[r - 1] + Len(mpChan[r])
    /\ MpiAllReturned =>
          /\ \A r \in Ranks(mpSize) : mpChan[r] = <<>>
          /\ \A r \in Ranks(mpSize) :
                mpPosted[r] = IF r < mpSize - 1 THEN SentBy(r + 1) ELSE 0
          /\ mpFn = "transfer_points_to_blocktree" =>
                \A r \in Ranks(mpSize) : mpBuf[r].bufsize = Len(mpBuf[r].buffer)

\* Three ranks with blocking sends have all returned from
\* transfer_points_to_blocktree; the middle rank both sent and received.
C26_Witness ==
    /\ MpiAllReturned
    /\ mpBlocking
    /\ mpSize >= 3
    /\ mpFn = "transfer_points_to_blocktree"
    /\ SentBy(1) = 2
    /\ mpPosted[1] = 2
    /\ mpBuf[0].bufsize >= 1

-----------------------------------------------------------------------------
(* create_parallel_grid on rank 0, receive_parallel_grid on every other rank
   and create_internal on all of them, for the flat triangle grid
   (grid/flat_triangle_grid/parallel.rs) and the single element grid
   (grid/single_element_grid/parallel.rs).  Vertices, cells and ranks are
   numbered from 0 as in the code; the place of an entry in a Vec is its
   position minus 1, and x_per_proc[p] is entry p + 1 of the sequence
   x_per_proc. *)

GridKinds == {"flat_triangle", "single_element"}

\* The vertices of the cells a builder can hold.
GridCandidateCells == {<<0, 1, 2>>, <<2, 1, 3>>, <<0, 2, 3>>}

\* self.cells, cell by cell: up to MaxGridCells different cells.
GridMeshes ==
    {m \in UNION {[1..n -> GridCandidateCells] : n \in 1..MaxGridCells} :
        \A i, j \in 1..Len(m) : i # j => m[i] # m[j]}

\* self.cell_indices_to_ids[index]
CellId(index) == 100 + index

\* self.point_indices_to_ids[v]
PointId(v) == 10 + v

GridVertices == 0..3

\* The element type and the name of the arrays, in the order rank 0 sends them
\* (flat triangle 180-229, single element 121-153).
GridArrays_ids_before_indices(kind) ==
    <<"points", "cells", "point_ids", "vertex_owners", "cell_ids",
      "vertex_local_indices", "cell_owners", "cell_local_indices">> \o
    (IF kind = "flat_triangle"
     THEN <<"edge_owners", "edge_local_indices", "edge_vertices0", "edge_vertices1">>
     ELSE <<>>)

\* The arrays rank 0 sends to each other rank, in order.
GridArrays(kind) ==
    <<"points", "cells", "point_ids", "vertex_owners", "vertex_local_indices",
      "cell_ids", "cell_owners", "cell_local_indices">> \o
    (IF kind = "flat_triangle"
     THEN <<"edge_owners", "edge_local_indices", "edge_vertices0", "edge_vertices1">>
     ELSE <<>>)

\* The fields receive_parallel_grid fills, in order (flat triangle 254-265,
\* single element 175-182); the parameters of create_internal come in the
\* same order.
GridFields(kind) ==
    <<"points", "cells", "point_ids", "vertex_owners", "vertex_local_indices",
      "cell_ids", "cell_owners", "cell_local_indices">> \o
    (IF kind = "flat_triangle"
     THEN <<"edge_owners", "edge_local_indices", "edge_vertices0", "edge_vertices1">>
     ELSE <<>>)

\* &points_per_proc[p] is a [T]; every other array is a [usize];
\* receive_vec::<T>() for points, receive_vec::<usize>() for the others.
ElementType(name) == IF name = "points" THEN "T" ELSE "usize"

RECURSIVE Repeat(_, _)
\* vec![value; n]
Repeat(value, n) == IF n = 0 THEN <<>> ELSE Append(Repeat(value, n - 1), value)

\* Lines 40-57: the Vecs of create_parallel_grid that hold one Vec per
\* process, all empty.
PerProc(size) ==
    LET empty == Repeat(<<>>, size)
    IN  [vertex_indices |-> empty, cell_indices |-> empty, edges |-> empty,
         points |-> empty, cells |-> empty, point_ids |-> empty,
         cell_ids |-> empty, vertex_owners |-> empty,
         vertex_local_indices |-> empty, edge_vertices0 |-> empty,
         edge_vertices1 |-> empty, edge_owners |-> empty,
         edge_local_indices |-> empty, cell_owners |-> empty,
         cell_local_indices |-> empty]

\* list.iter().position(|&r| r == v).unwrap()
Position(list, v) ==
    (CHOOSE i \in 1..Len(list) : list[i] = v /\ \A j \in 1..(i - 1) : list[j] # v) - 1

\* self.points[v * 3 + i]: the value stands for the coordinate it is.
Coordinate(v, i) == v * 3 + i

\* x_per_proc[p].push(value)
Push(arr, name, p, value) ==
    CASE name = "vertex_indices" -> [arr EXCEPT !.vertex_indices = [arr.vertex_indices EXCEPT ![p + 1] = Append(@, value)]]
      [] name = "cell_indices" -> [arr EXCEPT !.cell_indices = [arr.cell_indices EXCEPT ![p + 1] = Append(@, value)]]
      [] name = "edges" -> [arr EXCEPT !.edges = [arr.edges EXCEPT ![p + 1] = Append(@, value)]]
      [] name = "points" -> [arr EXCEPT !.points = [arr.points EXCEPT ![p + 1] = Append(@, value)]]
      [] name = "cells" -> [arr EXCEPT !.cells = [arr.cells EXCEPT ![p + 1] = Append(@, value)]]
      [] name = "point_ids" -> [arr EXCEPT !.point_ids = [arr.point_ids EXCEPT ![p + 1] = Append(@, value)]]
      [] name = "cell_ids" -> [arr EXCEPT !.cell_ids = [arr.cell_ids EXCEPT ![p + 1] = Append(@, value)]]
      [] name = "vertex_owners" -> [arr EXCEPT !.vertex_owners = [arr.vertex_owners EXCEPT ![p + 1] = Append(@, value)]]
      [] name = "vertex_local_indices" -> [arr EXCEPT !.vertex_local_indices = [arr.vertex_local_indices EXCEPT ![p + 1] = Append(@, value)]]
      [] name = "edge_vertices0" -> [arr EXCEPT !.edge_vertices0 = [arr.edge_vertices0 EXCEPT ![p + 1] = Append(@, value)]]
      [] name = "edge_vertices1" -> [arr EXCEPT !.edge_vertices1 = [arr.edge_vertices1 EXCEPT ![p + 1] = Append(@, value)]]
      [] name = "edge_owners" -> [arr EXCEPT !.edge_owners = [arr.edge_owners EXCEPT ![p + 1] = Append(@, value)]]
      [] name = "edge_local_indices" -> [arr EXCEPT !.edge_local_indices = [arr.edge_local_indices EXCEPT ![p + 1] = Append(@, value)]]
      [] name = "cell_owners" -> [arr EXCEPT !.cell_owners = [arr.cell_owners EXCEPT ![p + 1] = Append(@, value)]]
      [] name = "cell_local_indices" -> [arr EXCEPT !.cell_local_indices = [arr.cell_local_indices EXCEPT ![p + 1] = Append(@, value)]]

\* Lines 66-72 and 125-131 of the flat triangle grid: a vertex joins the list
\* of process p.
PushVertex(arr, p, v, vertex_owners) ==
    LET a1 == Push(arr, "vertex_indices", p, v)
        a2 == Push(a1, "vertex_owners", p, vertex_owners[v + 1][1])
        a3 == Push(a2, "vertex_local_indices", p, vertex_owners[v + 1][2])
        a4 == Push(Push(Push(a3, "points", p, Coordinate(v, 0)), "points", p,
                        Coordinate(v, 1)), "points", p, Coordinate(v, 2))
    IN  Push(a4, "point_ids", p, PointId(v))

\* edge_owners is the set of the entries of the HashMap: edge_owners[&edge]
\* and edge_owners.get_mut(&edge).is_none().
EdgeOwnerOf(edge_owners, edge) ==
    (CHOOSE entry \in edge_owners : entry.edge = edge).value

NoEdgeOwner(edge_owners, edge) == \A entry \in edge_owners : entry.edge # edge

\* The state of create_parallel_grid at line 58.
StartPartition(size) ==
    [vertex_owners |-> Repeat(<<-1, 0>>, Cardinality(GridVertices)),
     vertex_counts |-> Repeat(0, size),
     edge_owners   |-> {},
     edge_counts   |-> Repeat(0, size),
     arr |-> PerProc(size)]

\* A variant of the body of the first loop in which the owner of a vertex is
\* assigned at every cell that contains it.
VertexStep_last_cell(st, owner, v) ==
    LET vo == [st.vertex_owners EXCEPT ![v + 1] = <<owner, st.vertex_counts[owner + 1]>>]
    IN  IF ~Contains(st.arr["vertex_indices"][owner + 1], v)
        THEN [st EXCEPT !.vertex_owners = vo,
                        !.arr = PushVertex(st.arr, owner, v, vo),
                        !.vertex_counts = [st.vertex_counts EXCEPT ![owner + 1] = @ + 1]]
        ELSE [st EXCEPT !.vertex_owners = vo]

\* Lines 62-74: the body of the first loop for vertex v of a cell of owner.
VertexStep(st, owner, v) ==
    LET vo == IF st.vertex_owners[v + 1][1] = -1
              THEN [st.vertex_owners EXCEPT ![v + 1] = <<owner, st.vertex_counts[owner + 1]>>]
              ELSE st.vertex_owners
    IN  IF ~Contains(st.arr["vertex_indices"][owner + 1], v)
        THEN [st EXCEPT !.vertex_owners = vo,
                        !.arr = PushVertex(st.arr, owner, v, vo),
                        !.vertex_counts = [st.vertex_counts EXCEPT ![owner + 1] = @ + 1]]
        ELSE [st EXCEPT !.vertex_owners = vo]

RECURSIVE VertexLoop(_, _, _, _)
\* Lines 59-76: for (index, id) in cell_indices_to_ids, for v in the cell;
\* k counts the vertices of all cells.
VertexLoop(st, mesh, owners, k) ==
    IF k >= 3 * Len(mesh) THEN st
    ELSE LET index == k \div 3
         IN  VertexLoop(VertexStep(st, owners[CellId(index)],
                                   mesh[index + 1][(k % 3) + 1]),
                        mesh, owners, k + 1)

\* for e in [[1, 2], [0, 2], [0, 1]]
CellEdges == <<<<1, 2>>, <<0, 2>>, <<0, 1>>>>

\* if v0 < v1 { [v0, v1] } else { [v1, v0] }
Ordered(v0, v1) ==
    IF v0 < v1 THEN [first |-> v0, second |-> v1] ELSE [first |-> v1, second |-> v0]

\* Lines 81-96: the global edge e of a cell and its vertices in the list of p.
GlobalEdge(cell, e) == Ordered(cell[e[1] + 1], cell[e[2] + 1])

LocalEdge(arr, p, cell, e) ==
    Ordered(Position(arr["vertex_indices"][p + 1], cell[e[1] + 1]),
            Position(arr["vertex_indices"][p + 1], cell[e[2] + 1]))

\* Lines 99-103, 149-153: an edge joins the list of process p.
PushEdge(arr, p, edge, local_edge, edge_owners) ==
    LET a1 == Push(arr, "edges", p, edge)
        a2 == Push(a1, "edge_vertices0", p, local_edge.first)
        a3 == Push(a2, "edge_vertices1", p, local_edge.second)
        a4 == Push(a3, "edge_owners", p, EdgeOwnerOf(edge_owners, edge)[1])
    IN  Push(a4, "edge_local_indices", p, EdgeOwnerOf(edge_owners, edge)[2])

\* Lines 80-106: the body of the second loop for edge e of a cell of owner.
EdgeStep(st, owner, cell, e) ==
    LET edge == GlobalEdge(cell, e)
        local_edge == LocalEdge(st.arr, owner, cell, e)
    IN  IF NoEdgeOwner(st.edge_owners, edge)
        THEN LET eo == st.edge_owners \cup
                       {[edge |-> edge, value |-> <<owner, st.edge_counts[owner + 1]>>]}
             IN  [st EXCEPT !.edge_owners = eo,
                            !.arr = PushEdge(st.arr, owner, edge, local_edge, eo),
                            !.edge_counts = [st.edge_counts EXCEPT ![owner + 1] = @ + 1]]
        ELSE st

RECURSIVE EdgeLoop(_, _, _, _)
\* Lines 78-107 of the flat triangle grid; the single element grid has no
\* such loop.
EdgeLoop(st, mesh, owners, k) ==
    IF k >= 3 * Len(mesh) THEN st
    ELSE LET index == k \div 3
         IN  EdgeLoop(EdgeStep(st, owners[CellId(index)], mesh[index + 1],
                               CellEdges[(k % 3) + 1]),
                      mesh, owners, k + 1)

RECURSIVE CellsTouching(_, _, _)
\* Lines 109-118: the cells, in order, with a vertex in a list of vertices.
CellsTouching(vertex_indices, mesh, index) ==
    IF index >= Len(mesh) THEN <<>>
    ELSE (IF \E i \in 1..3 : Contains(vertex_indices, mesh[index + 1][i])
          THEN <<index>> ELSE <<>>) \o CellsTouching(vertex_indices, mesh, index + 1)

RECURSIVE CellLists(_, _, _)
\* Lines 109-118: the cells of the processes 0..size-1.
CellLists(vertex_indices, mesh, size) ==
    IF size = 0 THEN <<>>
    ELSE Append(CellLists(vertex_indices, mesh, size - 1),
                CellsTouching(vertex_indices[size], mesh, 0))

\* Lines 109-118: process p gets every cell with a vertex in its list.
CellLoop(st, mesh, size) ==
    [st EXCEPT !.arr.cell_indices = CellLists(st.arr.vertex_indices, mesh, size)]

\* Lines 124-139: vertex v of a cell of process p.
GhostVertexStep(st, p, v) ==
    LET a1 == IF ~Contains(st.arr["vertex_indices"][p + 1], v)
              THEN PushVertex(st.arr, p, v, st.vertex_owners)
              ELSE st.arr
    IN  [st EXCEPT !.arr = Push(a1, "cells", p, Position(a1["vertex_indices"][p + 1], v))]

\* Lines 141-163: edge e of a cell of process p.
GhostEdgeStep(st, p, cell, e) ==
    LET edge == GlobalEdge(cell, e)
        local_edge == LocalEdge(st.arr, p, cell, e)
    IN  IF ~Contains(st.arr["edges"][p + 1], edge)
        THEN [st EXCEPT !.arr = PushEdge(st.arr, p, edge, local_edge, st.edge_owners)]
        ELSE st

\* Lines 165-173: the identifier, the owner and the owner's place of a cell.
GhostCellStep(st, p, index, owners) ==
    LET id == CellId(index)
        a1 == Push(st.arr, "cell_ids", p, id)
        a2 == Push(a1, "cell_owners", p, owners[id])
    IN  [st EXCEPT !.arr = Push(a2, "cell_local_indices", p,
                                Position(st.arr["cell_indices"][owners[id] + 1], index))]

\* Lines 122-174: the body of the last loop for one cell of process p.
GhostStep(st, kind, p, index, mesh, owners) ==
    LET cell == mesh[index + 1]
        s3 == GhostVertexStep(GhostVertexStep(GhostVertexStep(st, p, cell[1]),
                                              p, cell[2]), p, cell[3])
        s6 == IF kind = "flat_triangle"
              THEN GhostEdgeStep(GhostEdgeStep(GhostEdgeStep(s3, p, cell, CellEdges[1]),
                                               p, cell, CellEdges[2]),
                                 p, cell, CellEdges[3])
              ELSE s3
    IN  GhostCellStep(s6, p, index, owners)

RECURSIVE GhostLoop(_, _, _, _, _, _, _)
\* Lines 120-175: for p in 0..size, for index in &cell_indices_per_proc[p].
GhostLoop(st, kind, mesh, owners, size, p, i) ==
    IF p >= size THEN st
    ELSE IF i > Len(st.arr["cell_indices"][p + 1])
         THEN GhostLoop(st, kind, mesh, owners, size, p + 1, 1)
         ELSE GhostLoop(GhostStep(st, kind, p, st.arr["cell_indices"][p + 1][i], mesh, owners),
                        kind, mesh, owners, size, p, i + 1)

\* create_parallel_grid up to the sends: the four loops (the single element
\* grid has three).
Partition(kind, mesh, owners, size) ==
    LET s1 == VertexLoop(StartPartition(size), mesh, owners, 0)
        s2 == IF kind = "flat_triangle" THEN EdgeLoop(s1, mesh, owners, 0) ELSE s1
        s3 == CellLoop(s2, mesh, size)
    IN  GhostLoop(s3, kind, mesh, owners, size, 0, 1).arr

Owned == [owned |-> TRUE, process |-> 0, index |-> 0]

Ghost(o, j) == [owned |-> FALSE, process |-> o, index |-> j]

\* if owner == rank { Ownership::Owned } else { Ownership::Ghost(owner, index) }
Ownership(rank, owner, local_index) ==
    IF owner = rank THEN Owned ELSE Ghost(owner, local_index)

\* create_internal (flat triangle 289-374, single element 196-279): args are
\* the arrays in the order of the parameters.
create_internal(kind, rank, args) ==
    [point_ids |-> args[3],
     cells |-> args[2],
     cell_ids |-> args[6],
     cell_ownership |-> [i \in 1..Len(args[6]) |-> Ownership(rank, args[7][i], args[8][i])],
     vertex_ownership |-> [i \in 1..Len(args[3]) |-> Ownership(rank, args[4][i], args[5][i])],
     edge_ownership |-> IF kind = "flat_triangle"
                        THEN [i \in 1..Len(args[9]) |-> Ownership(rank, args[9][i], args[10][i])]
                        ELSE <<>>,
     edges |-> IF kind = "flat_triangle"
               THEN [i \in 1..Len(args[11]) |-> <<args[11][i], args[12][i]>>]
               ELSE <<>>]

NoGrid == [point_ids |-> <<>>, cells |-> <<>>, cell_ids |-> <<>>,
           cell_ownership |-> <<>>, vertex_ownership |-> <<>>,
           edge_ownership |-> <<>>, edges |-> <<>>]

IdleGrid ==
    /\ grKind = "none"
    /\ grSize = 0
    /\ grBlocking = FALSE
    /\ grCells = <<>>
    /\ grOwners = <<>>
    /\ grPart = <<>>
    /\ grSent = 0
    /\ grChan = <<>>
    /\ grGot = <<>>
    /\ grGrid = <<>>
    /\ grDone = <<>>

\* A builder with some cells on rank 0, the owner of every cell, and all the
\* ranks about to call create_parallel_grid / receive_parallel_grid.
InitGrid ==
    /\ grKind \in GridKinds
    /\ grSize \in 1..MaxGridRanks
    /\ grBlocking \in BOOLEAN
    /\ grCells \in GridMeshes
    /\ grOwners \in [{CellId(i - 1) : i \in 1..Len(grCells)} -> Ranks(grSize)]
    /\ grPart = <<>>
    /\ grSent = 0
    /\ grChan = [p \in Ranks(grSize) |-> <<>>]
    /\ grGot = [p \in Ranks(grSize) |-> <<>>]
    /\ grGrid = [p \in Ranks(grSize) |-> NoGrid]
    /\ grDone = [p \in Ranks(grSize) |-> FALSE]

NArrays == Len(GridArrays(grKind))

\* Rank 0 runs the loops of create_parallel_grid.
GridPartition ==
    /\ grSize > 0
    /\ grPart = <<>>
    /\ grPart' = Partition(grKind, grCells, grOwners, grSize)
    /\ UNCHANGED <<grKind, grSize, grBlocking, grCells, grOwners, grSent, grChan,
                   grGot, grGrid, grDone>>
    /\ UNCHANGED notGrid

\* The rank is inside the receive_vec that takes the next message of rank 0.
GridReceivePosted(p) == ~grDone[p] /\ Len(grGot[p]) < NArrays /\ grChan[p] = <<>>

\* Rank 0: the next immediate_send of the loop for p in 1..size; the
\* WaitGuard is dropped at the end of the statement, which waits for the send
\* to complete.  The send completes at once, or only when the receive is
\* posted.
GridSend ==
    /\ grPart # <<>>
    /\ grSent < NArrays * (grSize - 1)
    /\ LET p == 1 + (grSent \div NArrays)
           name == GridArrays(grKind)[(grSent % NArrays) + 1]
       IN  /\ grBlocking => GridReceivePosted(p)
           /\ grChan' = [grChan EXCEPT ![p] =
                 Append(@, [name |-> name, type |-> ElementType(name),
                            data |-> grPart[name][p + 1]])]
    /\ grSent' = grSent + 1
    /\ UNCHANGED <<grKind, grSize, grBlocking, grCells, grOwners, grPart, grGot,
                   grGrid, grDone>>
    /\ UNCHANGED notGrid

\* Rank p >= 1: the next receive_vec of receive_parallel_grid takes the
\* oldest message of rank 0.
GridReceive ==
    /\ \E p \in Ranks(grSize) :
          /\ p >= 1
          /\ Len(grGot[p]) < NArrays
          /\ grChan[p] # <<>>
          /\ LET field == GridFields(grKind)[Len(grGot[p]) + 1]
             IN  grGot' = [grGot EXCEPT ![p] =
                    Append(@, [field |-> field, type |-> ElementType(field),
                               message |-> Head(grChan[p])])]
          /\ grChan' = [grChan EXCEPT ![p] = Tail(@)]
    /\ UNCHANGED <<grKind, grSize, grBlocking, grCells, grOwners, grPart, grSent,
                   grGrid, grDone>>
    /\ UNCHANGED notGrid

\* create_internal: on rank 0 with the arrays of rank 0 once the sends are
\* done, on rank p >= 1 with the arrays received.
GridCreate ==
    /\ \E p \in Ranks(grSize) :
          /\ ~grDone[p]
          /\ IF p = 0
             THEN /\ grPart # <<>>
                  /\ grSent = NArrays * (grSize - 1)
                  /\ grGrid' = [grGrid EXCEPT ![p] =
                        create_internal(grKind, p,
                            [i \in 1..NArrays |-> grPart[GridFields(grKind)[i]][1]])]
             ELSE /\ Len(grGot[p]) = NArrays
                  /\ grGrid' = [grGrid EXCEPT ![p] =
                        create_internal(grKind, p,
                            [i \in 1..NArrays |-> grGot[p][i].message.data])]
          /\ grDone' = [grDone EXCEPT ![p] = TRUE]
    /\ UNCHANGED <<grKind, grSize, grBlocking, grCells, grOwners, grPart, grSent,
                   grChan, grGot>>
    /\ UNCHANGED notGrid

NextGrid == GridPartition \/ GridSend \/ GridReceive \/ GridCreate

\* Every rank has its grid.
GridAllDone == grSize > 0 /\ \A p \in Ranks(grSize) : grDone[p]

\* The stated owner of a vertex or an edge: that of the first cell in cell
\* order that contains it.
FirstCellOwner(Holds(_)) ==
    LET first == CHOOSE i \in 1..Len(grCells) :
                     Holds(grCells[i]) /\ \A j \in 1..(i - 1) : ~Holds(grCells[j])
    IN  grOwners[CellId(first - 1)]

VertexOwner(vid) ==
    LET Holds(cell) == \E k \in 1..3 : PointId(cell[k]) = vid
    IN  FirstCellOwner(Holds)

\* An edge is told by the identifiers of its two vertices.
EdgeOwner(ids) ==
    LET Holds(cell) == \A id \in ids : \E k \in 1..3 : PointId(cell[k]) = id
    IN  FirstCellOwner(Holds)

\* The identifiers of the vertices of edge i of the grid of a rank.
EdgeIds(grid, i) ==
    {grid.point_ids[grid.edges[i][1] + 1], grid.point_ids[grid.edges[i][2] + 1]}

\* The mark is Owned exactly when the owner is p, else Ghost(o, j), and place
\* j of the list of o holds the same entity.
MarkedRight(mark, p, o, SameAt(_, _)) ==
    /\ mark.owned <=> (o = p)
    /\ ~mark.owned => /\ mark.process = o
                      /\ SameAt(grGrid[o], mark.index + 1)

\* C27: in the grids create_parallel_grid prepares, every vertex, cell and
\* edge of the data of process p has one owner (a cell: cell_owners; a vertex
\* or an edge: the owner of the first cell in cell order that contains it); it
\* is marked Owned exactly when the owner is p and otherwise Ghost(o, j), j
\* the place of the same entity in the list of process o.
C27_OneOwner ==
    GridAllDone =>
        \A p \in Ranks(grSize) :
            LET g == grGrid[p] IN
            /\ \A i \in 1..Len(g.cell_ids) :
                  LET Same(og, j) == j \in 1..Len(og.cell_ids) /\ og.cell_ids[j] = g.cell_ids[i]
                  IN  MarkedRight(g.cell_ownership[i], p, grOwners[g.cell_ids[i]], Same)
            /\ \A i \in 1..Len(g.point_ids) :
                  LET Same(og, j) == j \in 1..Len(og.point_ids) /\ og.point_ids[j] = g.point_ids[i]
                  IN  MarkedRight(g.vertex_ownership[i], p, VertexOwner(g.point_ids[i]), Same)
            /\ \A i \in 1..Len(g.edges) :
                  LET Same(og, j) == j \in 1..Len(og.edges) /\ EdgeIds(og, j) = EdgeIds(g, i)
                  IN  MarkedRight(g.edge_ownership[i], p, EdgeOwner(EdgeIds(g, i)), Same)
            /\ grKind = "flat_triangle" => Len(g.edge_ownership) = Len(g.edges)

\* Two ranks have their flat triangle grids; rank 1 holds a ghost vertex, a
\* ghost cell and a ghost edge, and rank 0 a ghost vertex.
C27_Witness ==
    /\ GridAllDone
    /\ grKind = "flat_triangle"
    /\ grSize >= 2
    /\ \E i \in 1..Len(grGrid[1].point_ids) : ~grGrid[1].vertex_ownership[i].owned
    /\ \E i \in 1..Len(grGrid[1].cell_ids) : ~grGrid[1].cell_ownership[i].owned
    /\ \E i \in 1..Len(grGrid[1].edges) : ~grGrid[1].edge_ownership[i].owned
    /\ \E i \in 1..Len(grGrid[1].cell_ids) : grGrid[1].cell_ownership[i].owned
    /\ \E i \in 1..Len(grGrid[0].cell_ids) : ~grGrid[0].cell_ownership[i].owned

\* C28: rank 0 sends to each rank p >= 1 the arrays that p receives, in the
\* same order and with the same element types (12 for the flat triangle grid,
\* the first 8 for the single element grid): every receive gets the array
\* prepared for that field of p, all ranks terminate and no message is left
\* unreceived.
C28_SendsMatchReceives ==
    grSize > 0 =>
        /\ NArrays = IF grKind = "flat_triangle" THEN 12 ELSE 8
        /\ \A p \in Ranks(grSize) : \A i \in 1..Len(grGot[p]) :
              /\ grGot[p][i].message.name = grGot[p][i].field
              /\ grGot[p][i].message.type = grGot[p][i].type
              /\ grGot[p][i].message.data = grPart[grGot[p][i].field][p + 1]
        /\ ~GridAllDone => (grPart = <<>> \/ ENABLED (GridSend \/ GridReceive \/ GridCreate))
        /\ GridAllDone =>
              /\ grSent = NArrays * (grSize - 1)
              /\ \A p \in Ranks(grSize) :
                    /\ grChan[p] = <<>>
                    /\ Len(grGot[p]) = IF p >= 1 THEN NArrays ELSE 0

\* Two ranks have their flat triangle grids, with sends that wait for the
\* receive; rank 1 received the twelve arrays, among them a vertex list and
\* an edge list that are not empty.
C28_Witness ==
    /\ GridAllDone
    /\ grKind = "flat_triangle"
    /\ grBlocking
    /\ grSize >= 2
    /\ Len(grGot[1]) = 12
    /\ grGot[1][1].message.data # <<>>
    /\ grGot[1][12].message.data # <<>>

-----------------------------------------------------------------------------
(* The values of a group of variables whose state machine is not running. *)

IdleRun ==
    /\ variant = "uniform"
    /\ time = FALSE
    /\ depth = 0
    /\ pc = 1
    /\ trace = <<>>

IdleTV ==
    /\ tvLevel = 0
    /\ tvTree = {}
    /\ tvRun = <<>>
    /\ tvSeen = {}
    /\ tvPanic = FALSE

IdleM2M ==
    /\ mmTree = {}
    /\ multipole = <<>>
    /\ mmLock = <<>>
    /\ mmPc = <<>>
    /\ mmOwned = <<>>
    /\ mmRead = <<>>
    /\ mmInit = <<>>

IdleM2L ==
    /\ mlTree = {}
    /\ mlMult = <<>>
    /\ mlKind = "svd"
    /\ mlPhase = "done"
    /\ mlVList = <<>>
    /\ mlCursor = <<>>
    /\ mlBucket = <<>>
    /\ mlGather = <<>>
    /\ mlCols = <<>>
    /\ mlDone = <<>>
    /\ mlLocal = <<>>
    /\ mlLock = <<>>
    /\ mlRead = <<>>
    /\ mlPanic = FALSE

-----------------------------------------------------------------------------
(* Specifications. *)

IdleNew == IdleMeta /\ IdleData /\ IdleBuilder /\ IdleTimes /\ IdleTree /\ IdleCover /\ IdleLocks /\ IdleMpi /\ IdleGrid

IdleOld == IdleRun /\ IdleLists /\ IdlePair /\ IdleTV /\ IdleM2M /\ IdleM2L

\* The evaluation driver: one run of FmmLoop::run.
InitSpec == InitRun /\ IdleLists /\ IdlePair /\ IdleTV /\ IdleM2M /\ IdleM2L /\ IdleNew

Spec == InitSpec /\ [][NextRun]_vars

\* The interaction lists of any key of the bounded octree.
InitSpecLists == IdleRun /\ InitLists /\ IdlePair /\ IdleTV /\ IdleM2M /\ IdleM2L /\ IdleNew

SpecLists == InitSpecLists /\ [][NextLists]_vars

\* X- and W-list membership of any pair of keys.
InitSpecPair == IdleRun /\ IdleLists /\ InitPair /\ IdleTV /\ IdleM2M /\ IdleM2L /\ IdleNew

SpecPair == InitSpecPair /\ [][NextPair]_vars

\* The bucket filling of the SVD m2l swept over the targets of a full level.
InitSpecTV == IdleRun /\ IdleLists /\ IdlePair /\ InitTV /\ IdleM2M /\ IdleM2L /\ IdleNew

SpecTV == InitSpecTV /\ [][NextTV]_vars

\* One call of m2m(level) by parallel tasks.
InitSpecM2M == IdleRun /\ IdleLists /\ IdlePair /\ IdleTV /\ InitM2M /\ IdleM2L /\ IdleNew

SpecM2M == InitSpecM2M /\ [][NextM2M]_vars

\* One call of m2l(2), SVD or FFT variant, by parallel tasks.
InitSpecM2L == IdleRun /\ IdleLists /\ IdlePair /\ IdleTV /\ IdleM2M /\ InitM2L /\ IdleNew

SpecM2L == InitSpecM2L /\ [][NextM2L]_vars

\* One call of set_metadata on a freshly built object.
InitSpecMeta == IdleOld /\ InitMeta /\ IdleData /\ IdleBuilder /\ IdleTimes /\ IdleTree /\ IdleCover /\ IdleLocks /\ IdleMpi /\ IdleGrid

SpecMeta == InitSpecMeta /\ [][NextMeta]_vars

\* Any sequence of calls on one NodeData.
InitSpecData == IdleOld /\ IdleMeta /\ InitData /\ IdleBuilder /\ IdleTimes /\ IdleTree /\ IdleCover /\ IdleLocks /\ IdleMpi /\ IdleGrid

SpecData == InitSpecData /\ [][NextData]_vars

\* Any sequence of calls on one builder.
InitSpecBuilder == IdleOld /\ IdleMeta /\ IdleData /\ InitBuilder /\ IdleTimes /\ IdleTree /\ IdleCover /\ IdleLocks /\ IdleMpi /\ IdleGrid

SpecBuilder == InitSpecBuilder /\ [][NextBuilder]_vars

\* One call of run(time), with the dictionaries it builds.
InitSpecTimes == IdleOld /\ IdleMeta /\ IdleData /\ IdleBuilder /\ InitTimes /\ IdleTree /\ IdleCover /\ IdleLocks /\ IdleMpi /\ IdleGrid

SpecTimes == InitSpecTimes /\ [][NextTimes]_vars

\* One call of uniform_tree.
InitSpecTree == IdleOld /\ IdleMeta /\ IdleData /\ IdleBuilder /\ IdleTimes /\ InitTree /\ IdleCover /\ IdleLocks /\ IdleMpi /\ IdleGrid

SpecTree == InitSpecTree /\ [][NextTree]_vars

\* One pair of leaves of a uniform tree, level by level.
InitSpecCover == IdleOld /\ IdleMeta /\ IdleData /\ IdleBuilder /\ IdleTimes /\ IdleTree /\ InitCover /\ IdleLocks /\ IdleMpi /\ IdleGrid

SpecCover == InitSpecCover /\ [][NextCover]_vars

\* One invocation of a parallel operator, any interleaving of its tasks.
InitSpecLocks == IdleOld /\ IdleMeta /\ IdleData /\ IdleBuilder /\ IdleTimes /\ IdleTree /\ IdleCover /\ InitLocks /\ IdleMpi /\ IdleGrid

SpecLocks == InitSpecLocks /\ [][NextLocks]_vars

\* Every rank of a communicator calls complete_blocktree or transfer_points_to_blocktree.
InitSpecMpi == IdleOld /\ IdleMeta /\ IdleData /\ IdleBuilder /\ IdleTimes /\ IdleTree /\ IdleCover /\ IdleLocks /\ InitMpi /\ IdleGrid

SpecMpi == InitSpecMpi /\ [][NextMpi]_vars

\* Rank 0 calls create_parallel_grid and every other rank receive_parallel_grid.
InitSpecGrid == IdleOld /\ IdleMeta /\ IdleData /\ IdleBuilder /\ IdleTimes /\ IdleTree /\ IdleCover /\ IdleLocks /\ IdleMpi /\ InitGrid

SpecGrid == InitSpecGrid /\ [][NextGrid]_vars

=============================================================================
